---- MODULE Spec2Model ----
(***************************************************************************)
(* Audit trail of the pilot-docs application: the audit_logs table, the    *)
(* row triggers on the tracked tables (documents, pilots, user_roles), the *)
(* log_custom_action / get_audit_logs procedures, the row-level-security   *)
(* policies and the client wrappers of lib/audit.                          *)
(*                                                                         *)
(* A table is a set of rows, a row a function from column names to values. *)
(* Every statement sent by a client is one transaction, so an action is    *)
(* one statement together with the triggers it fires.  Transactions start  *)
(* at different times: NOW() has moved on whenever one has committed.      *)
(***************************************************************************)
EXTENDS Integers, Sequences, FiniteSets, TLC

VARIABLES user_roles, pilots, documents, audit_logs, next_id, now, last, ui, app

vars == <<user_roles, pilots, documents, audit_logs, next_id, now, last, ui, app>>

-----------------------------------------------------------------------------
(* Bounds of the model *)

\* entries ever written to audit_logs
MaxLog == 2
\* entries of a log the queries are run on, and the timestamps they carry
MaxQueryLog == 2
MaxTime == 2
\* rows of a page of the AuditLog component (25 in the source)
PageSize == 1
\* rows an export asks for (10000 in the source)
ExportCap == 1

-----------------------------------------------------------------------------
(* Values *)

\* SQL NULL of a scalar column
NULL == "NULL"
\* SQL NULL of a JSONB column (old_values / new_values)
NullJsonb == [sqlnull |-> "NULL"]
\* SQL NULL of a TEXT[] column (changed_fields left unset)
NullArray == <<"NULL">>
\* the JSON value null inside a JSONB document
JsonNull == "json:null"
\* the JSONB document '{}'
EmptyObject == <<>>

Range(sq) == {sq[i] : i \in DOMAIN sq}

Users == {"u1", "u2"}
\* a connection without an authenticated identity
Anon == "anon"
Sessions == Users \cup {Anon}

Roles == {"pilot", "admin", "inspector"}
ActionTypes == {"CREATE", "UPDATE", "DELETE", "APPROVE", "REJECT", "UPLOAD",
                "DOWNLOAD", "LOGIN", "LOGOUT", "VIEW", "EXPORT"}
DocumentStatus == {"pending", "approved", "rejected", "expired"}
TrackedTables == {"documents", "pilots", "user_roles"}

auth_uid(s) == IF s = Anon THEN NULL ELSE s
auth_email(s) == CASE s = "u1" -> "u1@air.test"
                   [] s = "u2" -> "u2@air.test"
                   [] OTHER    -> NULL

-----------------------------------------------------------------------------
(* Inputs the clients draw from *)

\* SET clauses of the UPDATE statements: an edit of two columns that leaves
\* the title alone, and a status the column does not admit
DocumentSets == {[status |-> "approved", expiry_date |-> "2027-01-01"],
                 [status |-> "bogus"]}
PilotSets == {[first_name |-> "Bob"]}
RoleSets == {[role |-> "inspector"]}
UpdateSets(table) == CASE table = "documents" -> DocumentSets
                       [] table = "pilots"    -> PilotSets
                       [] OTHER               -> RoleSets

\* rows of the INSERT statements
NewDocuments == {[id |-> "d2", pilot_id |-> "p1", title |-> "t1",
                  status |-> st, expiry_date |-> NULL, updated_at |-> NULL] : st \in {"pending", "bogus"}}
NewPilots == {[id |-> "p2", user_id |-> u, first_name |-> "Cy", last_name |-> "Doe"] :
                  u \in Users}
NewRoles == {[id |-> "r3", user_id |-> "u1", role |-> "pilot"]}
InsertRows(table) == CASE table = "documents" -> NewDocuments
                       [] table = "pilots"    -> NewPilots
                       [] OTHER               -> NewRoles

\* arguments of the explicit log calls: a document view, an export without
\* a target record, and an action type outside the enumeration
LogCalls == {<<"documents", "d1", "VIEW", [document_title |-> "t1"]>>,
             <<"system", NULL, "EXPORT", EmptyObject>>,
             <<"documents", "d1", "PURGE", EmptyObject>>}

\* filters of the audit queries: none, and another actor's entries
\* (NoDate stands for a date that is not supplied: startDate || null)
NoDate == -1
NoFilters == [tableName |-> NULL, actionType |-> NULL, userId |-> NULL,
              startDate |-> NoDate, endDate |-> NoDate, limit |-> 50, offset |-> 0]
MainFilters == {NoFilters, [NoFilters EXCEPT !.userId = "u2"]}

\* how the transaction around a statement ends once the statement and its
\* trigger have run: it commits, the write to audit_logs fails in storage,
\* or the transaction is rolled back
TxnInputs == {"commit", "audit_write_fails", "rollback"}

-----------------------------------------------------------------------------
(* Row-level security of the tracked tables *)

HasRole(roles, uid, r) == \E ur \in roles : ur.user_id = uid /\ ur.role = r

\* pilots_can_*_own_documents: the document hangs on the caller's pilot record
PilotOwnsDocument(s, row) ==
    /\ s # Anon
    /\ \E p \in pilots : p.id = row.pilot_id /\ p.user_id = auth_uid(s)
    /\ HasRole(user_roles, auth_uid(s), "pilot")

IsAdminSession(s) == s # Anon /\ HasRole(user_roles, auth_uid(s), "admin")

\* USING / WITH CHECK of the documents policies (the same predicate for every
\* command a pilot or an admin may run)
DocumentsPolicy(s, row) == PilotOwnsDocument(s, row) \/ IsAdminSession(s)

\* pilots: own record may be inserted; admins manage all
PilotsInsertPolicy(s, row) == (s # Anon /\ row.user_id = auth_uid(s)) \/ IsAdminSession(s)
PilotsManagePolicy(s, row) == IsAdminSession(s)

\* USING: which existing rows a command can touch
RlsUsing(s, table, cmd, row) ==
    CASE table = "documents" -> DocumentsPolicy(s, row)
      [] table = "pilots"    -> PilotsManagePolicy(s, row)
      [] OTHER               -> TRUE

\* WITH CHECK: which new rows a command may write
RlsWithCheck(s, table, cmd, row) ==
    CASE table = "documents" -> DocumentsPolicy(s, row)
      [] table = "pilots"    -> IF cmd = "INSERT" THEN PilotsInsertPolicy(s, row)
                                ELSE PilotsManagePolicy(s, row)
      [] OTHER               -> TRUE

\* column constraints of the tracked tables
RowConstraints(table, row) ==
    CASE table = "documents"  -> row.status \in DocumentStatus
      [] table = "user_roles" -> row.role \in Roles
      [] OTHER                -> TRUE

-----------------------------------------------------------------------------
(* Audit capture *)

\* get_current_user_context(): the rows the function returns; none when the
\* session has no identity or the identity has no row in user_roles
get_current_user_context(s, roles) ==
    {[user_id |-> auth_uid(s), user_email |-> auth_email(s), user_role |-> ur.role] :
        ur \in {r \in roles : s # Anon /\ r.user_id = auth_uid(s)}}

NullContext == [user_id |-> NULL, user_email |-> NULL, user_role |-> NULL]

\* SELECT * INTO user_context FROM get_current_user_context(): the first row,
\* or a record of NULLs when there is none
UserContexts(s, roles) ==
    IF get_current_user_context(s, roles) = {} THEN {NullContext}
    ELSE get_current_user_context(s, roles)

\* to_jsonb(row): a SQL NULL column becomes the JSON value null
to_jsonb(row) == [k \in DOMAIN row |-> IF row[k] = NULL THEN JsonNull ELSE row[k]]

\* jsonb_object_keys: keys in JSONB storage order (shorter first, then bytewise)
KeyOrder == <<"id", "role", "title", "status", "user_id", "pilot_id",
              "last_name", "first_name", "updated_at", "expiry_date">>
jsonb_object_keys(obj) == SelectSeq(KeyOrder, LAMBDA k : k \in DOMAIN obj)

\* obj ->> key: the value as text, SQL NULL for a missing key or a JSON null
JsonText(obj, k) ==
    IF k \notin DOMAIN obj THEN NULL
    ELSE IF obj[k] = JsonNull THEN NULL ELSE obj[k]

\* variant: the comparison written with <>, which is not true of a NULL
IsDistinctFrom_NotEqual(a, b) == a # NULL /\ b # NULL /\ a # b

\* a IS DISTINCT FROM b
IsDistinctFrom(a, b) == a # b

\* the FOR loop of the trigger over the keys of new_data
RECURSIVE ChangedFieldsLoop(_, _, _, _)
ChangedFieldsLoop(keys, old_data, new_data, changed_fields) ==
    IF keys = <<>> THEN changed_fields
    ELSE ChangedFieldsLoop(Tail(keys), old_data, new_data,
            IF IsDistinctFrom(JsonText(old_data, Head(keys)), JsonText(new_data, Head(keys)))
            THEN Append(changed_fields, Head(keys))
            ELSE changed_fields)

\* variant: new_data serialised for every operation
TriggerNewData_Always(TG_OP, NEWROW) == to_jsonb(NEWROW)

\* old_data, new_data and changed_fields as the trigger computes them
TriggerOldData(TG_OP, OLDROW) == IF TG_OP = "INSERT" THEN NullJsonb ELSE to_jsonb(OLDROW)
TriggerNewData(TG_OP, NEWROW) == IF TG_OP = "DELETE" THEN NullJsonb ELSE to_jsonb(NEWROW)
TriggerChangedFields(TG_OP, OLDROW, NEWROW) ==
    IF TG_OP = "UPDATE"
    THEN ChangedFieldsLoop(jsonb_object_keys(to_jsonb(NEWROW)), to_jsonb(OLDROW), to_jsonb(NEWROW), <<>>)
    ELSE <<>>

TriggerName(table) == CASE table = "documents" -> "audit_documents_trigger"
                        [] table = "pilots"    -> "audit_pilots_trigger"
                        [] OTHER               -> "audit_user_roles_trigger"

\* the action_type the trigger writes
TriggerActionType(TG_OP) == TG_OP

\* the record variable OLD of an INSERT and NEW of a DELETE: every field NULL
NullRow == [id |-> NULL]

\* audit_trigger_function: the column values of the INSERT INTO audit_logs;
\* record_id is COALESCE(NEW.id, OLD.id)
audit_trigger_function(TG_OP, TG_TABLE_NAME, OLDROW, NEWROW, user_context) ==
    [table_name     |-> TG_TABLE_NAME,
     record_id      |-> IF NEWROW.id # NULL THEN NEWROW.id ELSE OLDROW.id,
     action_type    |-> TriggerActionType(TG_OP),
     user_id        |-> user_context.user_id,
     user_email     |-> user_context.user_email,
     user_role      |-> user_context.user_role,
     old_values     |-> TriggerOldData(TG_OP, OLDROW),
     new_values     |-> TriggerNewData(TG_OP, NEWROW),
     changed_fields |-> TriggerChangedFields(TG_OP, OLDROW, NEWROW),
     metadata       |-> [trigger_name |-> TriggerName(TG_TABLE_NAME), schema_name |-> "public"]]

\* variant: the metadata argument is not passed on and the column default applies
log_custom_action_DefaultMetadata(p_table_name, p_record_id, p_action_type, p_metadata, user_context) ==
    [table_name     |-> p_table_name,
     record_id      |-> p_record_id,
     action_type    |-> p_action_type,
     user_id        |-> user_context.user_id,
     user_email     |-> user_context.user_email,
     user_role      |-> user_context.user_role,
     old_values     |-> NullJsonb,
     new_values     |-> NullJsonb,
     changed_fields |-> NullArray,
     metadata       |-> EmptyObject]

\* log_custom_action: the column values of its INSERT; the snapshot columns
\* are not listed and stay NULL
log_custom_action(p_table_name, p_record_id, p_action_type, p_metadata, user_context) ==
    [table_name     |-> p_table_name,
     record_id      |-> p_record_id,
     action_type    |-> p_action_type,
     user_id        |-> user_context.user_id,
     user_email     |-> user_context.user_email,
     user_role      |-> user_context.user_role,
     old_values     |-> NullJsonb,
     new_values     |-> NullJsonb,
     changed_fields |-> NullArray,
     metadata       |-> p_metadata]

\* variant: audit_logs without the CHECK on action_type
AuditConstraints_NoActionCheck(vals) ==
    /\ vals.table_name # NULL
    /\ vals.action_type # NULL
    /\ vals.user_role = NULL \/ vals.user_role \in Roles

\* CHECK and NOT NULL constraints of audit_logs
AuditConstraints(vals) ==
    /\ vals.table_name # NULL
    /\ vals.action_type # NULL
    /\ vals.action_type \in ActionTypes
    /\ vals.user_role = NULL \/ vals.user_role \in Roles

\* gen_random_uuid(): the n-th identifier drawn
EntryIds == <<"e1", "e2", "e3", "e4", "e5", "e6", "e7", "e8">>
gen_random_uuid(n) == EntryIds[n]

\* the stored row: the listed columns plus the column defaults
AuditRow(vals, n, created_at) ==
    [id             |-> gen_random_uuid(n),
     table_name     |-> vals.table_name,
     record_id      |-> vals.record_id,
     action_type    |-> vals.action_type,
     user_id        |-> vals.user_id,
     user_email     |-> vals.user_email,
     user_role      |-> vals.user_role,
     old_values     |-> vals.old_values,
     new_values     |-> vals.new_values,
     changed_fields |-> vals.changed_fields,
     ip_address     |-> NULL,
     user_agent     |-> NULL,
     session_id     |-> NULL,
     metadata       |-> vals.metadata,
     created_at     |-> created_at]

-----------------------------------------------------------------------------
(* State *)

\* what the most recent operation was and what it returned to its caller
\* (args: the arguments of the call; attempt: the values a capture tried to
\* write to audit_logs; result: what the caller got back)
Last(op, s, table, record_id, args, storage, outcome, ctx, attempt, result) ==
    [op |-> op, session |-> s, table |-> table, record_id |-> record_id,
     args |-> args, storage |-> storage, outcome |-> outcome, ctx |-> ctx,
     attempt |-> attempt, result |-> result]

NoVals == [none |-> "none"]

\* the AuditLog component as mounted: page 1, nothing loaded yet
AuditLogMounted == [currentPage |-> 1, logs |-> <<>>, totalCount |-> 0]

\* the application outside the tables (calls in progress, caches, stored
\* files) where a specification does not follow it
NoApp == [none |-> "none"]

Init ==
    /\ user_roles = {[id |-> "r1", user_id |-> "u1", role |-> "pilot"],
                     [id |-> "r2", user_id |-> "u2", role |-> "admin"]}
    /\ pilots = {[id |-> "p1", user_id |-> "u1", first_name |-> "Ann", last_name |-> "Lee"]}
    /\ documents = {[id |-> "d1", pilot_id |-> "p1", title |-> "t1",
                     status |-> "pending", expiry_date |-> NULL,
                     updated_at |-> NULL]}
    /\ audit_logs = <<>>
    /\ next_id = 1
    /\ now = 0
    /\ last = Last("init", NULL, NULL, NULL, <<>>, NULL, NULL, NullContext, NoVals, NULL)
    /\ ui = AuditLogMounted
    /\ app = NoApp

TableRows(table) == CASE table = "documents" -> documents
                      [] table = "pilots"    -> pilots
                      [] OTHER               -> user_roles

\* the rows of a table after the statement
ApplyDml(TG_OP, rows, OLDROW, NEWROW) ==
    CASE TG_OP = "INSERT" -> rows \cup {NEWROW}
      [] TG_OP = "UPDATE" -> (rows \ {OLDROW}) \cup {NEWROW}
      [] OTHER            -> rows \ {OLDROW}

\* what storage does with the statement before any trigger runs: "ok", "norows"
\* (no row passes the USING policy, the statement succeeds on zero rows) or
\* "error" (WITH CHECK policy, column constraint or primary key violated)
StorageOutcome(s, TG_OP, table, OLDROW, NEWROW) ==
    CASE TG_OP = "INSERT" ->
            IF /\ RlsWithCheck(s, table, TG_OP, NEWROW)
               /\ RowConstraints(table, NEWROW)
               /\ \A r \in TableRows(table) : r.id # NEWROW.id
            THEN "ok" ELSE "error"
      [] TG_OP = "UPDATE" ->
            IF ~RlsUsing(s, table, TG_OP, OLDROW) THEN "norows"
            ELSE IF RlsWithCheck(s, table, TG_OP, NEWROW) /\ RowConstraints(table, NEWROW)
                 THEN "ok" ELSE "error"
      [] OTHER ->
            IF RlsUsing(s, table, TG_OP, OLDROW) THEN "ok" ELSE "norows"

\* the rows the INSERT INTO audit_logs of a capture writes: the row, or none
\* when a constraint of audit_logs rejects it or storage fails
AuditInsert(vals, n, created_at, txn) ==
    IF AuditConstraints(vals) /\ txn # "audit_write_fails"
    THEN <<AuditRow(vals, n, created_at)>>
    ELSE <<>>

\* variant: an exception handler around the INSERT swallows the failure
CaptureRaises_Swallowed(vals, txn) == FALSE

\* a capture raises when its INSERT wrote nothing: neither the trigger nor
\* log_custom_action has an exception handler
CaptureRaises(vals, txn) == AuditInsert(vals, 1, 0, txn) = <<>>

\* why a transaction whose statement storage accepted did not commit
AbortReason(vals, txn) ==
    IF ~AuditConstraints(vals) THEN "capture_error"
    ELSE IF txn = "audit_write_fails" THEN "audit_write_failed"
    ELSE "rolled_back"

\* One INSERT, UPDATE or DELETE of one row of a tracked table with its AFTER
\* ROW trigger.  The trigger runs after the statement has changed the table,
\* so it resolves the actor against the user_roles of that moment.
TrackedMutation(s, TG_OP, table, OLDROW, NEWROW, txn) ==
    /\ next_id <= MaxLog
    /\ UNCHANGED ui
    /\ LET storage == StorageOutcome(s, TG_OP, table, OLDROW, NEWROW)
           rows    == ApplyDml(TG_OP, TableRows(table), OLDROW, NEWROW)
           roles   == IF table = "user_roles" THEN rows ELSE user_roles
           rid     == IF TG_OP = "DELETE" THEN OLDROW.id ELSE NEWROW.id
           images  == <<OLDROW, NEWROW>>
       IN  IF storage # "ok"
           THEN /\ UNCHANGED <<user_roles, pilots, documents, audit_logs, next_id, now>>
                /\ last' = Last(TG_OP, s, table, rid, images, storage,
                                IF storage = "error" THEN "storage_error" ELSE "norows",
                                NullContext, NoVals, NULL)
           ELSE \E ctx \in UserContexts(s, roles) :
                LET vals    == audit_trigger_function(TG_OP, table, OLDROW, NEWROW, ctx)
                    written == AuditInsert(vals, next_id, now, txn)
                IN  IF ~CaptureRaises(vals, txn) /\ txn # "rollback"
                    THEN /\ documents'  = IF table = "documents" THEN rows ELSE documents
                         /\ pilots'     = IF table = "pilots" THEN rows ELSE pilots
                         /\ user_roles' = IF table = "user_roles" THEN rows ELSE user_roles
                         /\ audit_logs' = audit_logs \o written
                         /\ next_id' = next_id + Len(written)
                         /\ now' = now + 1
                         /\ last' = Last(TG_OP, s, table, rid, images, storage, "committed",
                                         ctx, vals, NULL)
                    ELSE /\ UNCHANGED <<user_roles, pilots, documents, audit_logs, next_id, now>>
                         /\ last' = Last(TG_OP, s, table, rid, images, storage,
                                         AbortReason(vals, txn), ctx, vals, NULL)

InsertRow(s, table, row, txn) ==
    /\ TrackedMutation(s, "INSERT", table, NullRow, row, txn)
    /\ UNCHANGED app

\* UPDATE table SET ... WHERE id = old.id
UpdateRow(s, table, old, set, txn) ==
    /\ old \in TableRows(table)
    /\ TrackedMutation(s, "UPDATE", table, old,
                       [k \in DOMAIN old |-> IF k \in DOMAIN set THEN set[k] ELSE old[k]], txn)
    /\ UNCHANGED app

DeleteRow(s, table, old, txn) ==
    /\ old \in TableRows(table)
    /\ TrackedMutation(s, "DELETE", table, old, NullRow, txn)
    /\ UNCHANGED app

-----------------------------------------------------------------------------
(* Explicit capture *)

\* what logAuditAction hands back to its caller for the outcome of the RPC
logAuditActionReturn(error, data) ==
    IF error THEN [how |-> "returned", value |-> NULL]
    ELSE [how |-> "returned", value |-> data]

\* logAuditAction(tableName, recordId, actionType, metadata): the RPC
\* log_custom_action in its own transaction, then the wrapper's return
logAuditActionCall(s, tableName, recordId, actionType, metadata, txn) ==
    /\ txn # "rollback"
    /\ \E ctx \in UserContexts(s, user_roles) :
         LET vals    == log_custom_action(tableName, recordId, actionType, metadata, ctx)
             written == AuditInsert(vals, next_id, now, txn)
             call    == <<tableName, recordId, actionType, metadata>>
         IN  IF ~CaptureRaises(vals, txn)
             THEN /\ audit_logs' = audit_logs \o written
                  /\ next_id' = next_id + Len(written)
                  /\ now' = now + 1
                  /\ last' = Last("log", s, tableName, recordId, call, "ok", "committed",
                                  ctx, vals, logAuditActionReturn(FALSE, gen_random_uuid(next_id)))
             ELSE /\ UNCHANGED <<audit_logs, next_id, now>>
                  /\ last' = Last("log", s, tableName, recordId, call, "ok",
                                  AbortReason(vals, txn), ctx, vals,
                                  logAuditActionReturn(TRUE, NULL))
    /\ UNCHANGED <<user_roles, pilots, documents, ui, app>>

\* the call, while the log has room for another entry
logAuditAction(s, tableName, recordId, actionType, metadata, txn) ==
    /\ next_id <= MaxLog
    /\ logAuditActionCall(s, tableName, recordId, actionType, metadata, txn)

-----------------------------------------------------------------------------
(* Row-level security of audit_logs and direct statements on it *)

\* view_audit_logs
ViewAuditLogsPolicy(s, al) ==
    \/ s # Anon /\ \E ur \in user_roles : ur.user_id = auth_uid(s) /\ ur.role \in {"admin", "inspector"}
    \/ s # Anon /\ al.user_id = auth_uid(s)

\* variant: the role list of view_audit_logs copied into the DELETE policy
AdminDeleteAuditLogsPolicy_Reviewers(s, al) ==
    s # Anon /\ \E ur \in user_roles : ur.user_id = auth_uid(s) /\ ur.role \in {"admin", "inspector"}

\* admin_delete_audit_logs
AdminDeleteAuditLogsPolicy(s, al) ==
    s # Anon /\ \E ur \in user_roles : ur.user_id = auth_uid(s) /\ ur.role = "admin"

\* the policies of audit_logs per command; a command without a policy passes
\* for no row, and a DELETE or UPDATE with a WHERE clause also needs the row
\* to pass the SELECT policy
AuditRls(s, cmd, al) ==
    CASE cmd = "SELECT" -> ViewAuditLogsPolicy(s, al)
      [] cmd = "DELETE" -> AdminDeleteAuditLogsPolicy(s, al) /\ ViewAuditLogsPolicy(s, al)
      [] OTHER          -> FALSE

\* DELETE FROM audit_logs WHERE id = id, sent by a client
AuditDelete(s, id) ==
    /\ \E i \in 1..Len(audit_logs) : audit_logs[i].id = id
    /\ audit_logs' = SelectSeq(audit_logs, LAMBDA al : ~(al.id = id /\ AuditRls(s, "DELETE", al)))
    /\ last' = Last("audit_delete", s, "audit_logs", id, <<>>, "ok",
                    IF audit_logs' = audit_logs THEN "norows" ELSE "committed",
                    NullContext, NoVals, NULL)
    /\ UNCHANGED <<user_roles, pilots, documents, next_id, now, ui, app>>

\* UPDATE audit_logs SET action_type = a WHERE id = id, sent by a client
AuditUpdate(s, id, a) ==
    /\ \E i \in 1..Len(audit_logs) : audit_logs[i].id = id
    /\ audit_logs' = [i \in 1..Len(audit_logs) |->
                        IF /\ audit_logs[i].id = id
                           /\ AuditRls(s, "UPDATE", audit_logs[i])
                           /\ AuditConstraints([audit_logs[i] EXCEPT !.action_type = a])
                        THEN [audit_logs[i] EXCEPT !.action_type = a]
                        ELSE audit_logs[i]]
    /\ last' = Last("audit_update", s, "audit_logs", id, <<a>>, "ok",
                    IF audit_logs' = audit_logs THEN "norows" ELSE "committed",
                    NullContext, NoVals, NULL)
    /\ UNCHANGED <<user_roles, pilots, documents, next_id, now, ui, app>>

-----------------------------------------------------------------------------
(* Audit queries *)

\* the orders ORDER BY created_at DESC may return a set of rows in: rows with
\* equal created_at come in any order
OrderByCreatedAtDesc(rows) ==
    {sq \in [1..Cardinality(rows) -> rows] :
        /\ \A i, j \in DOMAIN sq : i # j => sq[i] # sq[j]
        /\ \A i, j \in DOMAIN sq : i < j => sq[i].created_at >= sq[j].created_at}

Min(a, b) == IF a < b THEN a ELSE b

\* LIMIT l OFFSET o
LimitOffset(sq, l, o) == SubSeq(sq, o + 1, Min(Len(sq), o + l))

\* variant: the date bounds exclude the bound itself
MatchesFilters_ExclusiveDates(al, f) ==
    /\ f.tableName = NULL \/ al.table_name = f.tableName
    /\ f.actionType = NULL \/ al.action_type = f.actionType
    /\ f.userId = NULL \/ al.user_id = f.userId
    /\ f.startDate = NoDate \/ al.created_at > f.startDate
    /\ f.endDate = NoDate \/ al.created_at < f.endDate

\* the WHERE clause of get_audit_logs / the filters getAuditLogsWithDetails adds
MatchesFilters(al, f) ==
    /\ f.tableName = NULL \/ al.table_name = f.tableName
    /\ f.actionType = NULL \/ al.action_type = f.actionType
    /\ f.userId = NULL \/ al.user_id = f.userId
    /\ f.startDate = NoDate \/ al.created_at >= f.startDate
    /\ f.endDate = NoDate \/ al.created_at <= f.endDate

\* the rows a statement run as session s sees in audit_logs; a SECURITY
\* DEFINER function and a view run as their owner, the owner of the table,
\* to whom the policies do not apply
VisibleAuditLogs(s, asOwner) ==
    {al \in Range(audit_logs) : asOwner \/ AuditRls(s, "SELECT", al)}

\* get_audit_logs(...), SECURITY DEFINER: the result sets it may return
get_audit_logs(s, f) ==
    {LimitOffset(sq, f.limit, f.offset) :
        sq \in OrderByCreatedAtDesc({al \in VisibleAuditLogs(s, TRUE) : MatchesFilters(al, f)})}

\* a || ' ' || b
FullName(a, b) == a \o " " \o b

\* the view audit_logs_with_details: every entry joined with the pilot record
\* of its actor and the document its record_id names
audit_logs_with_details(s) ==
    LET Ps(al) == {p \in pilots : p.user_id = al.user_id}
        Ds(al) == {d \in documents : d.id = al.record_id}
        NoPilot == [first_name |-> NULL, last_name |-> NULL]
        NoDoc == [title |-> NULL]
        Joined(al, p, d) ==
            [id |-> al.id, table_name |-> al.table_name, record_id |-> al.record_id,
             action_type |-> al.action_type, user_id |-> al.user_id,
             user_email |-> al.user_email, user_role |-> al.user_role,
             old_values |-> al.old_values, new_values |-> al.new_values,
             changed_fields |-> al.changed_fields, ip_address |-> al.ip_address,
             user_agent |-> al.user_agent, session_id |-> al.session_id,
             metadata |-> al.metadata, created_at |-> al.created_at,
             first_name |-> p.first_name, last_name |-> p.last_name,
             record_description |->
                CASE al.table_name = "documents" -> d.title
                  [] al.table_name = "pilots" ->
                        IF p.first_name = NULL THEN NULL ELSE FullName(p.first_name, p.last_name)
                  [] OTHER -> al.table_name]
    IN  UNION {{Joined(al, p, d) :
                    p \in (IF Ps(al) = {} THEN {NoPilot} ELSE Ps(al)),
                    d \in (IF Ds(al) = {} THEN {NoDoc} ELSE Ds(al))} :
               al \in VisibleAuditLogs(s, TRUE)}

\* getAuditLogsWithDetails(filters): the view, filtered, ordered and cut to
\* the range offset .. offset + limit - 1
getAuditLogsWithDetails(s, f) ==
    {LimitOffset(sq, f.limit, f.offset) :
        sq \in OrderByCreatedAtDesc({r \in audit_logs_with_details(s) : MatchesFilters(r, f)})}

\* the count getAuditLogs hands back: .select('*', { count: 'exact' }) chained
\* on the RPC either asks for no count at all (the transform builder's select
\* takes no options: count is null) or counts the rows the function returned,
\* which LIMIT and OFFSET have already cut, depending on the client library
\* (NoCount stands for a null count)
NoCount == -1
getAuditLogsCount(data) == {NoCount, Len(data)}

\* the count getAuditLogsWithDetails hands back: count 'exact' of the filtered
\* view, taken before the range is applied
getAuditLogsWithDetailsCount(s, f) ==
    Cardinality({r \in audit_logs_with_details(s) : MatchesFilters(r, f)})

\* what both wrappers return when the request raised no error
QueryReturn(data, count) == [data |-> data, error |-> NULL, count |-> count]

\* getAuditLogs(filters), by the RPC
GetAuditLogs(s, f) ==
    /\ \E data \in get_audit_logs(s, f) : \E count \in getAuditLogsCount(data) :
          last' = Last("get_audit_logs", s, "audit_logs", NULL, f, "ok", "returned",
                       NullContext, NoVals, QueryReturn(data, count))
    /\ UNCHANGED <<user_roles, pilots, documents, audit_logs, next_id, now, ui, app>>

\* getAuditLogsWithDetails(filters), by the view
GetAuditLogsWithDetails(s, f) ==
    /\ \E data \in getAuditLogsWithDetails(s, f) :
          last' = Last("get_audit_logs_with_details", s, "audit_logs_with_details", NULL,
                       f, "ok", "returned", NullContext, NoVals,
                       QueryReturn(data, getAuditLogsWithDetailsCount(s, f)))
    /\ UNCHANGED <<user_roles, pilots, documents, audit_logs, next_id, now, ui, app>>

Next ==
    \/ \E s \in Users, table \in TrackedTables, txn \in TxnInputs :
          \E row \in InsertRows(table) : InsertRow(s, table, row, txn)
    \/ \E s \in Users, table \in TrackedTables, txn \in TxnInputs :
          \E old \in TableRows(table), set \in UpdateSets(table) :
             UpdateRow(s, table, old, set, txn)
    \/ \E s \in Users, table \in TrackedTables, txn \in TxnInputs :
          \E old \in TableRows(table) : DeleteRow(s, table, old, txn)
    \/ \E s \in Sessions, c \in LogCalls, txn \in TxnInputs :
          logAuditAction(s, c[1], c[2], c[3], c[4], txn)
    \/ \E s \in Users, al \in Range(audit_logs) : AuditDelete(s, al.id)
    \/ \E s \in Users, al \in Range(audit_logs) : AuditUpdate(s, al.id, "VIEW")
    \/ \E s \in Sessions, f \in MainFilters : GetAuditLogs(s, f)
    \/ \E s \in Sessions, f \in MainFilters : GetAuditLogsWithDetails(s, f)

Spec == Init /\ [][Next]_vars

-----------------------------------------------------------------------------
(* Document operations of lib/documents *)

\* new Date().toISOString() at the client
ClientTime == "2026-01-01T00:00:00.000Z"

\* the documentData of an upload: uploadDocumentComplete passes no status
UploadData == {[title |-> "t2", expiry_date |-> NULL]}
UploadPilotIds == {"p1"}

\* saveDocumentMetadata(pilotId, documentData): one INSERT into documents,
\* status defaulting to 'pending'; throws when the statement returns an error
saveDocumentMetadata(s, pilotId, documentData, txn) ==
    InsertRow(s, "documents",
              [id |-> "d2", pilot_id |-> pilotId, title |-> documentData.title,
               status |-> IF "status" \in DOMAIN documentData
                          THEN documentData.status ELSE "pending",
               expiry_date |-> documentData.expiry_date, updated_at |-> NULL],
              txn)

\* updateDocumentStatus(documentId, status): one UPDATE of status and
\* updated_at WHERE id = documentId
updateDocumentStatus(s, documentId, status, txn) ==
    \E old \in documents :
       /\ old.id = documentId
       /\ UpdateRow(s, "documents", old, [status |-> status, updated_at |-> ClientTime], txn)

\* what either wrapper does with the outcome of its statement
DocumentReturn(outcome) == IF outcome = "committed" THEN "returned" ELSE "threw"

FlowNext ==
    \/ \E s \in Users, pilotId \in UploadPilotIds, documentData \in UploadData,
          txn \in TxnInputs : saveDocumentMetadata(s, pilotId, documentData, txn)
    \/ \E s \in Users, d \in documents, status \in DocumentStatus, txn \in TxnInputs :
          updateDocumentStatus(s, d.id, status, txn)
    \/ \E s \in Users, f \in MainFilters : GetAuditLogs(s, f)

FlowSpec == Init /\ [][FlowNext]_vars

-----------------------------------------------------------------------------
(* Audit queries on a log that is already there *)

\* who logged what: the calls of log_custom_action the entries of such a log
\* come from
QueryCalls == {<<"u1", "documents", "d1", "VIEW">>,
               <<"u2", "documents", "d1", "DOWNLOAD">>,
               <<Anon, "system", NULL, "EXPORT">>}

\* the entry the n-th call left, committed by a transaction started at time
QueryEntry(call, roles, n, time) ==
    AuditRow(log_custom_action(call[2], call[3], call[4], EmptyObject,
                               CHOOSE ctx \in UserContexts(call[1], roles) : TRUE),
             n, time)

\* the logs: up to MaxQueryLog entries in the order they were written, their
\* transactions started in that order, several of them possibly at the same
\* instant
QueryLogs(roles) ==
    LET Draws == UNION {[1..n -> QueryCalls \X (1..MaxTime)] : n \in 0..MaxQueryLog}
        Ordered(lg) == \A i, j \in DOMAIN lg : i < j => lg[i][2] <= lg[j][2]
    IN  {[i \in DOMAIN lg |-> QueryEntry(lg[i][1], roles, i, lg[i][2])] :
            lg \in {d \in Draws : Ordered(d)}}

QueryInit ==
    /\ user_roles = {[id |-> "r1", user_id |-> "u1", role |-> "pilot"],
                     [id |-> "r2", user_id |-> "u2", role |-> "admin"]}
    /\ pilots = {[id |-> "p1", user_id |-> "u1", first_name |-> "Ann", last_name |-> "Lee"]}
    /\ documents = {[id |-> "d1", pilot_id |-> "p1", title |-> "t1",
                     status |-> "pending", expiry_date |-> NULL,
                     updated_at |-> NULL]}
    /\ audit_logs \in QueryLogs(user_roles)
    /\ next_id = Len(audit_logs) + 1
    /\ now = MaxTime + 1
    /\ last = Last("init", NULL, NULL, NULL, <<>>, NULL, NULL, NullContext, NoVals, NULL)
    /\ ui = AuditLogMounted
    /\ app = NoApp

\* the filters a caller supplies: every combination of the five, on the
\* default window
QueryFilters ==
    {[tableName |-> tn, actionType |-> at, userId |-> uid, startDate |-> sd,
      endDate |-> ed, limit |-> 50, offset |-> 0] :
        tn \in {NULL, "documents"}, at \in {NULL, "VIEW"}, uid \in {NULL, "u2"},
        sd \in {NoDate, MaxTime}, ed \in {NoDate, 1}}

\* the filters the clients of this model send
SentFilters ==
    {f \in QueryFilters :
        \/ f.tableName = NULL /\ f.actionType = NULL /\ f.endDate = NoDate
        \/ f.tableName # NULL /\ f.actionType # NULL /\ f.userId = NULL /\ f.startDate = NoDate}

\* the windows a caller pages with: page 1, page 2, and both pages at once
PageFilters ==
    {[NoFilters EXCEPT !.limit = l, !.offset = o] :
        l \in {PageSize, 2 * PageSize}, o \in {0, PageSize}} \
    {[NoFilters EXCEPT !.limit = 2 * PageSize, !.offset = PageSize]}

\* the session the queries are sent from: a pilot
QuerySessions == {"u1"}

QueryNext ==
    \/ \E s \in QuerySessions, f \in SentFilters \cup PageFilters : GetAuditLogs(s, f)
    \/ \E s \in QuerySessions, f \in SentFilters \cup PageFilters :
          GetAuditLogsWithDetails(s, f)

QuerySpec == QueryInit /\ [][QueryNext]_vars

-----------------------------------------------------------------------------
(* The AuditLog component: one page of the log at a time *)

\* canViewAuditLogs: the component loads nothing for other roles
canViewAuditLogs(s) ==
    HasRole(user_roles, auth_uid(s), "admin") \/ HasRole(user_roles, auth_uid(s), "inspector")

\* Math.ceil(totalCount / pageSize)
totalPages == (ui.totalCount + PageSize - 1) \div PageSize

\* loadAuditLogs with currentPage set to page: the page is fetched with
\* getAuditLogsWithDetails and replaces logs and totalCount
loadAuditLogs(s, op, page) ==
    LET f == [NoFilters EXCEPT !.limit = PageSize, !.offset = (page - 1) * PageSize]
    IN  /\ \E data \in getAuditLogsWithDetails(s, f) :
              /\ ui' = [currentPage |-> page, logs |-> data,
                        totalCount |-> getAuditLogsWithDetailsCount(s, f)]
              /\ last' = Last(op, s, "audit_logs_with_details", NULL, f, "ok", "returned",
                              NullContext, NoVals,
                              QueryReturn(data, getAuditLogsWithDetailsCount(s, f)))
        /\ UNCHANGED <<user_roles, pilots, documents, audit_logs, next_id, now, app>>

\* the component mounts, or a filter is reset: page 1 is loaded
AuditLogMount(s) ==
    /\ canViewAuditLogs(s)
    /\ loadAuditLogs(s, "mount", 1)

\* the button to the next page
NextPage(s) ==
    /\ canViewAuditLogs(s)
    /\ totalPages > 1 /\ ui.currentPage # totalPages
    /\ loadAuditLogs(s, "next_page", Min(totalPages, ui.currentPage + 1))

\* the button to the previous page
PreviousPage(s) ==
    /\ canViewAuditLogs(s)
    /\ totalPages > 1 /\ ui.currentPage # 1
    /\ loadAuditLogs(s, "previous_page", IF ui.currentPage - 1 > 1 THEN ui.currentPage - 1 ELSE 1)

\* another client's logAuditAction committing while the log is being read
\* (one more entry than the log started with, at most)
ConcurrentLog(call) ==
    /\ Len(audit_logs) <= MaxQueryLog
    /\ logAuditActionCall(call[1], call[2], call[3], call[4], EmptyObject, "commit")

PageNext ==
    \/ \E s \in Users : AuditLogMount(s)
    \/ \E s \in Users : NextPage(s)
    \/ \E s \in Users : PreviousPage(s)
    \/ \E call \in QueryCalls : ConcurrentLog(call)

PageSpec == QueryInit /\ [][PageNext]_vars

-----------------------------------------------------------------------------
(* Audit statistics *)

\* the entries of the window created_at BETWEEN p_start_date AND p_end_date;
\* a bound that is NULL makes the comparison NULL, which selects no row
StatisticsWindow(p_start_date, p_end_date) ==
    {al \in Range(audit_logs) :
        /\ p_start_date # NoDate /\ p_end_date # NoDate
        /\ al.created_at >= p_start_date /\ al.created_at <= p_end_date}

\* how many rows of a set carry value v in column col
CountBy(rows, col, v) == Cardinality({al \in rows : al[col] = v})

\* variant: the inner SELECT groups its rows and the statement runs, giving
\* one row of totals over the window
get_audit_statistics_Grouped(p_start_date, p_end_date) ==
    LET W == StatisticsWindow(p_start_date, p_end_date)
        Agg(col) == [v \in {al[col] : al \in W} |-> CountBy(W, col, v)]
    IN  [raised |-> FALSE, message |-> NULL,
         rows |-> <<[total_actions |-> Cardinality(W), actions_by_type |-> Agg("action_type"),
                     actions_by_user |-> Agg("user_email"),
                     actions_by_table |-> Agg("table_name"),
                     daily_activity |-> Agg("created_at")]>>]

\* get_audit_statistics(p_start_date, p_end_date), SECURITY DEFINER.  Its
\* inner SELECT lists action_type, user_email, table_name and DATE(created_at)
\* beside the aggregate COUNT(*) with no GROUP BY: PostgreSQL rejects the
\* statement whenever the function runs it, whatever the log holds
get_audit_statistics(p_start_date, p_end_date) ==
    [raised |-> TRUE,
     message |-> "column \"audit_logs.action_type\" must appear in the GROUP BY clause",
     rows |-> <<>>]

\* getAuditStatistics(startDate, endDate): both dates are passed to the RPC,
\* as NULL when not given, so the defaults of the function never apply
getAuditStatistics(startDate, endDate) ==
    LET r == get_audit_statistics(startDate, endDate)
    IN  IF r.raised THEN [data |-> NULL, error |-> r.message]
        ELSE IF r.rows = <<>> THEN [data |-> NULL, error |-> "No statistics available"]
        ELSE [data |-> [totalActions   |-> r.rows[1].total_actions,
                        actionsByType  |-> r.rows[1].actions_by_type,
                        actionsByUser  |-> r.rows[1].actions_by_user,
                        actionsByTable |-> r.rows[1].actions_by_table,
                        dailyActivity  |-> r.rows[1].daily_activity],
              error |-> NULL]

GetAuditStatistics(s, startDate, endDate) ==
    /\ last' = Last("get_audit_statistics", s, "audit_logs", NULL, <<startDate, endDate>>,
                    "ok", "returned", NullContext, NoVals,
                    getAuditStatistics(startDate, endDate))
    /\ UNCHANGED <<user_roles, pilots, documents, audit_logs, next_id, now, ui, app>>

\* the date ranges asked for: none, the whole log, its first instant
StatisticsRanges == {<<NoDate, NoDate>>, <<1, MaxTime>>, <<1, 1>>}

StatsNext ==
    \E s \in Users, range \in StatisticsRanges : GetAuditStatistics(s, range[1], range[2])

StatsSpec == QueryInit /\ [][StatsNext]_vars

-----------------------------------------------------------------------------
(* Export *)

\* A text is the sequence of its characters.  The characters that matter to
\* CSV stand for themselves; a run of other characters is kept as one piece.
DQ == "\""
Comma == ","
NewLine == "\n"

\* String(field): the characters of the strings of this model
Chars(str) ==
    CASE str = ""            -> <<>>
      [] str = "a,b"         -> <<"a", Comma, "b">>
      [] str = "say \"hi\""  -> <<"say ", DQ, "hi", DQ>>
      [] str = "two\nlines"  -> <<"two", NewLine, "lines">>
      [] str = "x\",\ny"     -> <<"x", DQ, Comma, NewLine, "y">>
      [] OTHER               -> <<str>>

\* new Date(created_at).toISOString(), created_at counted in milliseconds
Digits == <<"0", "1", "2", "3", "4", "5", "6", "7", "8", "9">>
toISOString(created_at) == "1970-01-01T00:00:00.00" \o Digits[created_at + 1] \o "Z"

\* value || ''
OrEmpty(value) == IF value = NULL THEN <<>> ELSE Chars(value)

\* array.join(separator)
RECURSIVE join(_, _)
join(array, separator) ==
    IF array = <<>> THEN <<>>
    ELSE IF Len(array) = 1 THEN array[1]
    ELSE array[1] \o separator \o join(Tail(array), separator)

\* the header line of the CSV
headers == <<"Timestamp", "Table", "Record ID", "Action", "User Email", "User Role",
             "User Name", "Description", "Changed Fields", "IP Address", "User Agent">>

\* the fields of the line of one row
exportRow(log) ==
    <<Chars(toISOString(log.created_at)),
      Chars(log.table_name),
      OrEmpty(log.record_id),
      Chars(log.action_type),
      OrEmpty(log.user_email),
      OrEmpty(log.user_role),
      IF log.first_name # NULL /\ log.last_name # NULL
      THEN Chars(log.first_name) \o <<" ">> \o Chars(log.last_name) ELSE <<>>,
      OrEmpty(log.record_description),
      IF log.changed_fields = NullArray THEN <<>>
      ELSE join([i \in DOMAIN log.changed_fields |-> Chars(log.changed_fields[i])],
                <<Comma, " ">>),
      OrEmpty(log.ip_address),
      OrEmpty(log.user_agent)>>

\* field.replace(/"/g, '""')
RECURSIVE replaceQuotes(_)
replaceQuotes(field) ==
    IF field = <<>> THEN <<>>
    ELSE (IF Head(field) = DQ THEN <<DQ, DQ>> ELSE <<Head(field)>>)
            \o replaceQuotes(Tail(field))

\* variant: the quotes inside a field are left as they are
quoteField_NoDoubling(field) == <<DQ>> \o field \o <<DQ>>

\* `"${String(field).replace(/"/g, '""')}"`
quoteField(field) == <<DQ>> \o replaceQuotes(field) \o <<DQ>>

\* [headers, ...rows].map(row => row.map(quote).join(',')).join('\n')
csvContent(rows) ==
    join([i \in DOMAIN rows |->
             join([j \in DOMAIN rows[i] |-> quoteField(rows[i][j])], <<Comma>>)],
         <<NewLine>>)

\* JSON.stringify(data, null, 2): a text that determines data
JSONstringify(data) == [json |-> data]

\* what an export hands to its caller
exportReturn(data, content) ==
    IF data = <<>> THEN [how |-> "threw", value |-> "No data to export"]
    ELSE [how |-> "returned", value |-> content]

\* the rows both exports fetch: getAuditLogsWithDetails({...filters, limit})
exportData(s, f) == getAuditLogsWithDetails(s, [f EXCEPT !.limit = ExportCap])

exportAuditLogsToCSV(s, f) ==
    /\ \E data \in exportData(s, f) :
          last' = Last("export_csv", s, "audit_logs_with_details", NULL, f, "ok", "returned",
                       NullContext, NoVals,
                       exportReturn(data, csvContent(<<[i \in DOMAIN headers |-> Chars(headers[i])]>>
                                                       \o [i \in DOMAIN data |-> exportRow(data[i])])))
    /\ UNCHANGED <<user_roles, pilots, documents, audit_logs, next_id, now, ui, app>>

exportAuditLogsToJSON(s, f) ==
    /\ \E data \in exportData(s, f) :
          last' = Last("export_json", s, "audit_logs_with_details", NULL, f, "ok", "returned",
                       NullContext, NoVals, exportReturn(data, JSONstringify(data)))
    /\ UNCHANGED <<user_roles, pilots, documents, audit_logs, next_id, now, ui, app>>

\* titles a document may carry
ExportTitles == {"t1", "a,b", "say \"hi\"", "two\nlines", "x\",\ny"}

\* the entry an approval of document d left: the row the trigger writes for
\* updateDocumentStatus(d.id, 'approved') sent by the admin
ApprovalEntry(d, roles, n, time) ==
    AuditRow(audit_trigger_function("UPDATE", "documents", d,
                                    [d EXCEPT !.status = "approved", !.updated_at = ClientTime],
                                    CHOOSE ctx \in UserContexts("u2", roles) : TRUE),
             n, time)

\* the logs exported: up to MaxQueryLog entries, logged or captured, the
\* n-th written at time n
ExportLogs(d, roles) ==
    LET Calls == <<<<"u1", "documents", "d1", "VIEW">>, <<Anon, "system", NULL, "EXPORT">>>>
        Draws == UNION {[1..n -> 0..Len(Calls)] : n \in 0..MaxQueryLog}
    IN  {[i \in DOMAIN lg |-> IF lg[i] = 0 THEN ApprovalEntry(d, roles, i, i)
                               ELSE QueryEntry(Calls[lg[i]], roles, i, i)] : lg \in Draws}

ExportInit ==
    /\ user_roles = {[id |-> "r1", user_id |-> "u1", role |-> "pilot"],
                     [id |-> "r2", user_id |-> "u2", role |-> "admin"]}
    /\ pilots = {[id |-> "p1", user_id |-> "u1", first_name |-> "Ann", last_name |-> "Lee"]}
    /\ \E title \in ExportTitles :
          documents = {[id |-> "d1", pilot_id |-> "p1", title |-> title,
                        status |-> "pending", expiry_date |-> NULL,
                        updated_at |-> NULL]}
    /\ \E d \in documents : audit_logs \in ExportLogs(d, user_roles)
    /\ next_id = Len(audit_logs) + 1
    /\ now = MaxQueryLog + 1
    /\ last = Last("init", NULL, NULL, NULL, <<>>, NULL, NULL, NullContext, NoVals, NULL)
    /\ ui = AuditLogMounted
    /\ app = NoApp

\* the filters of the exports: none, or one table
ExportFilters == {NoFilters, [NoFilters EXCEPT !.tableName = "documents"]}

ExportNext ==
    \/ \E s \in QuerySessions, f \in ExportFilters : exportAuditLogsToCSV(s, f)
    \/ \E s \in QuerySessions, f \in ExportFilters : exportAuditLogsToJSON(s, f)

ExportSpec == ExportInit /\ [][ExportNext]_vars

-----------------------------------------------------------------------------
(* Audit queries with filters no entry can meet *)

\* filters outside what AuditFilters is meant to carry: an action type that
\* is none of ActionType, and a range whose start lies after its end; and,
\* beside them, no filter at all
OddFilters ==
    {NoFilters,
     [NoFilters EXCEPT !.actionType = "BOGUS"],
     [NoFilters EXCEPT !.startDate = MaxTime, !.endDate = 1]}

OddNext ==
    \/ \E s \in Users, f \in OddFilters : GetAuditLogs(s, f)
    \/ \E s \in Users, f \in OddFilters : GetAuditLogsWithDetails(s, f)

OddSpec == QueryInit /\ [][OddNext]_vars

-----------------------------------------------------------------------------
(* Role assignment of lib/roles *)

\* the browser sessions that call the application at the same time, and the
\* identity each is signed in as: two sessions of u1
Procs == {"a", "b"}
SessionOf(p) == "u1"

\* a call of assignUserRole that is not running
Idle == [pc |-> "idle", userId |-> NULL, role |-> NULL, result |-> "none"]

\* .eq('user_id', userId).single(): the row when there is exactly one, no
\* data (and an error the caller does not read) otherwise
single(rows) == IF Cardinality(rows) = 1 THEN rows ELSE {}

\* assignUserRole(userId, role), first request: the SELECT of the id of the
\* role row; the call returns true when there is one
assignUserRoleCheck(p, userId, role) ==
    /\ app.calls[p].pc \in {"idle", "done"}
    /\ LET existingRole == single({ur \in user_roles : ur.user_id = userId})
       IN  /\ app' = [app EXCEPT !.calls[p] =
                        IF existingRole # {}
                        THEN [pc |-> "done", userId |-> userId, role |-> role, result |-> "true"]
                        ELSE [pc |-> "insert", userId |-> userId, role |-> role, result |-> "none"]]
           /\ last' = Last("assign_check", SessionOf(p), "user_roles", NULL, <<userId, role>>,
                           "ok", "returned", NullContext, NoVals, existingRole)
    /\ UNCHANGED <<user_roles, pilots, documents, audit_logs, next_id, now, ui>>

\* the id the database gives the row a call inserts
RoleRowId(p) == "r_" \o p

\* assignUserRole, second request: the INSERT of the role row; the call
\* returns false when the request came back with an error
assignUserRoleInsert(p, txn) ==
    /\ app.calls[p].pc = "insert"
    /\ TrackedMutation(SessionOf(p), "INSERT", "user_roles", NullRow,
                       [id |-> RoleRowId(p), user_id |-> app.calls[p].userId,
                        role |-> app.calls[p].role], txn)
    /\ app' = [app EXCEPT !.calls[p].pc = "done",
                          !.calls[p].result = IF last'.outcome = "committed"
                                              THEN "true" ELSE "false"]

\* updateUserRole(userId, role): UPDATE user_roles SET role WHERE user_id =
\* userId, one request; no row for the identity is no error
updateUserRole(s, userId, role, txn) ==
    /\ UNCHANGED app
    /\ IF \E ur \in user_roles : ur.user_id = userId
       THEN \E ur \in user_roles :
               /\ ur.user_id = userId
               /\ TrackedMutation(s, "UPDATE", "user_roles", ur, [ur EXCEPT !.role = role], txn)
       ELSE /\ next_id <= MaxLog
            /\ last' = Last("UPDATE", s, "user_roles", NULL, <<userId, role>>, "norows",
                            "norows", NullContext, NoVals, NULL)
            /\ UNCHANGED <<user_roles, pilots, documents, audit_logs, next_id, now, ui>>

\* the role store: the admin has a role; u1 is a pilot, or a first-time user
\* without a role
RoleInit ==
    /\ \E first \in SUBSET {[id |-> "r1", user_id |-> "u1", role |-> "pilot"]} :
          user_roles = first \cup {[id |-> "r2", user_id |-> "u2", role |-> "admin"]}
    /\ pilots = {[id |-> "p1", user_id |-> "u1", first_name |-> "Ann", last_name |-> "Lee"]}
    /\ documents = {[id |-> "d1", pilot_id |-> "p1", title |-> "t1",
                     status |-> "pending", expiry_date |-> NULL,
                     updated_at |-> NULL]}
    /\ audit_logs = <<>>
    /\ next_id = 1
    /\ now = 0
    /\ last = Last("init", NULL, NULL, NULL, <<>>, NULL, NULL, NullContext, NoVals, NULL)
    /\ ui = AuditLogMounted
    /\ app = [calls |-> [p \in Procs |-> Idle]]

RoleNext ==
    \/ \E p \in Procs, userId \in Users, role \in {"pilot", "admin"} :
          assignUserRoleCheck(p, userId, role)
    \/ \E p \in Procs, txn \in TxnInputs : assignUserRoleInsert(p, txn)
    \/ \E s \in Users, userId \in Users, role \in Roles :
          updateUserRole(s, userId, role, "commit")

RoleSpec == RoleInit /\ [][RoleNext]_vars

-----------------------------------------------------------------------------
(* Pilot records of lib/documents *)

\* the sessions of u1 that upload at the same time: three browser tabs
PilotProcs == Procs \cup {"c"}

\* a call of getOrCreatePilotRecord that is not running
PilotIdle == [pc |-> "idle", userId |-> NULL, result |-> "none"]

\* .eq('user_id', userId).maybeSingle(): the row when there is exactly one;
\* no data when there is none, and no data with the error PGRST116 when
\* there are several, which both callers let pass
maybeSingle(rows) == IF Cardinality(rows) = 1 THEN rows ELSE {}

\* what a call that found the pilot record hands back: its id
FoundPilot(p, userId, existingPilot) ==
    [pc |-> "done", userId |-> userId,
     result |-> (CHOOSE row \in existingPilot : TRUE).id]

\* DocumentUpload.handleUpload after the file is stored: its own SELECT of
\* the pilot record; getOrCreatePilotRecord is called when there is none
handleUploadCheck(p) ==
    /\ app.calls[p].pc = "idle"
    /\ LET userId == auth_uid(SessionOf(p))
           existingPilot == maybeSingle({row \in pilots : row.user_id = userId})
       IN  /\ app' = [app EXCEPT !.calls[p] =
                        IF existingPilot # {} THEN FoundPilot(p, userId, existingPilot)
                        ELSE [pc |-> "check", userId |-> userId, result |-> "none"]]
           /\ last' = Last("upload_check", SessionOf(p), "pilots", NULL, <<userId>>,
                           "ok", "returned", NullContext, NoVals, existingPilot)
    /\ UNCHANGED <<user_roles, pilots, documents, audit_logs, next_id, now, ui>>

\* getOrCreatePilotRecord(userId), first request: the SELECT of the id of the
\* pilot record; the call returns it when there is one
getOrCreatePilotRecordCheck(p) ==
    /\ app.calls[p].pc \in {"idle", "check"}
    /\ LET userId == auth_uid(SessionOf(p))
           existingPilot == maybeSingle({row \in pilots : row.user_id = userId})
       IN  /\ app' = [app EXCEPT !.calls[p] =
                        IF existingPilot # {} THEN FoundPilot(p, userId, existingPilot)
                        ELSE [pc |-> "insert", userId |-> userId, result |-> "none"]]
           /\ last' = Last("pilot_check", SessionOf(p), "pilots", NULL, <<userId>>,
                           "ok", "returned", NullContext, NoVals, existingPilot)
    /\ UNCHANGED <<user_roles, pilots, documents, audit_logs, next_id, now, ui>>

\* the id the database gives the pilot record a call inserts
PilotRowId(p) == "p_" \o p

\* getOrCreatePilotRecord, second request: the INSERT of the pilot record,
\* named 'User' 'Pilot' when the account carries no name; the call returns
\* the new id, or throws when the request came back with an error
getOrCreatePilotRecordInsert(p, txn) ==
    /\ app.calls[p].pc = "insert"
    /\ TrackedMutation(SessionOf(p), "INSERT", "pilots", NullRow,
                       [id |-> PilotRowId(p), user_id |-> app.calls[p].userId,
                        first_name |-> "User", last_name |-> "Pilot"], txn)
    /\ app' = [app EXCEPT !.calls[p].pc = "done",
                          !.calls[p].result = IF last'.outcome = "committed"
                                              THEN PilotRowId(p) ELSE "threw"]

\* a user who has uploaded nothing yet: a pilot without a pilot record
PilotInit ==
    /\ user_roles = {[id |-> "r1", user_id |-> "u1", role |-> "pilot"],
                     [id |-> "r2", user_id |-> "u2", role |-> "admin"]}
    /\ pilots \in SUBSET {[id |-> "p1", user_id |-> "u1", first_name |-> "Ann",
                           last_name |-> "Lee"]}
    /\ documents = {}
    /\ audit_logs = <<>>
    /\ next_id = 1
    /\ now = 0
    /\ last = Last("init", NULL, NULL, NULL, <<>>, NULL, NULL, NullContext, NoVals, NULL)
    /\ ui = AuditLogMounted
    /\ app = [calls |-> [p \in PilotProcs |-> PilotIdle]]

PilotNext ==
    \/ \E p \in PilotProcs : handleUploadCheck(p)
    \/ \E p \in PilotProcs : getOrCreatePilotRecordCheck(p)
    \/ \E p \in PilotProcs, txn \in TxnInputs : getOrCreatePilotRecordInsert(p, txn)

PilotSpec == PilotInit /\ [][PilotNext]_vars

-----------------------------------------------------------------------------
(* Files and metadata: uploadDocumentComplete, deleteDocumentComplete *)

\* An object of the bucket pilot-documents: its path is userId/type/name,
\* folder being the first part.  app.files is the bucket, app.file_url the
\* column file_url of the rows of documents, app.call the call in progress.

\* the storage policies: a pilot manages the objects in the folder named by
\* their own id, an admin every object
StoragePolicy(s, file) ==
    \/ file.folder = auth_uid(s) /\ HasRole(user_roles, auth_uid(s), "pilot")
    \/ HasRole(user_roles, auth_uid(s), "admin")

\* what a request to storage may come back with apart from its policies
StorageInputs == {"ok", "error"}

\* the object an upload stores and the id the database gives its row
NewFile(s) == [name |-> "f_d2", folder |-> auth_uid(s)]
NewDocumentId == "d2"

NoCall == [pc |-> "idle", session |-> NULL, pilotId |-> NULL, documentId |-> NULL,
           result |-> "none"]

\* a call has ended: what its caller sees
Ended(call, result) == [call EXCEPT !.pc = "done", !.result = result]

\* uploadDocumentComplete(userId, uploadData), step 1, first request of
\* getOrCreatePilotRecord: the SELECT of the pilot record
uploadDocumentCompleteStart(s) ==
    /\ app.call.pc \in {"idle", "done"}
    /\ \A d \in documents : d.id # NewDocumentId
    /\ NewFile(s) \notin app.files
    /\ LET existingPilot == maybeSingle({row \in pilots : row.user_id = auth_uid(s)})
       IN  /\ app' = [app EXCEPT !.call =
                        IF existingPilot # {}
                        THEN [pc |-> "store", session |-> s,
                              pilotId |-> (CHOOSE row \in existingPilot : TRUE).id,
                              documentId |-> NULL, result |-> "none"]
                        ELSE [pc |-> "pilot", session |-> s, pilotId |-> NULL,
                              documentId |-> NULL, result |-> "none"]]
           /\ last' = Last("upload_start", s, "pilots", NULL, <<auth_uid(s)>>,
                           "ok", "returned", NullContext, NoVals, existingPilot)
    /\ UNCHANGED <<user_roles, pilots, documents, audit_logs, next_id, now, ui>>

\* step 1, second request of getOrCreatePilotRecord: the INSERT of the pilot
\* record; the upload throws when it fails
uploadCreatePilot(txn) ==
    /\ app.call.pc = "pilot"
    /\ TrackedMutation(app.call.session, "INSERT", "pilots", NullRow,
                       [id |-> "p_new", user_id |-> auth_uid(app.call.session),
                        first_name |-> "User", last_name |-> "Pilot"], txn)
    /\ app' = [app EXCEPT !.call =
                 IF last'.outcome = "committed"
                 THEN [app.call EXCEPT !.pc = "store", !.pilotId = "p_new"]
                 ELSE Ended(app.call, "threw")]

\* step 2, uploadPilotDocument: the file goes to storage (upsert: false);
\* the upload throws when storage reports an error
uploadPilotDocument(storage) ==
    /\ app.call.pc = "store"
    /\ LET file == NewFile(app.call.session)
           success == /\ storage = "ok"
                      /\ StoragePolicy(app.call.session, file)
                      /\ file \notin app.files
       IN  /\ app' = [app EXCEPT !.files = IF success THEN @ \cup {file} ELSE @,
                                 !.call = IF success THEN [@ EXCEPT !.pc = "save"]
                                          ELSE Ended(@, "threw")]
           /\ last' = Last("storage_upload", app.call.session, "storage.objects", NULL,
                           <<file>>, storage, IF success THEN "returned" ELSE "storage_error",
                           NullContext, NoVals, NULL)
    /\ UNCHANGED <<user_roles, pilots, documents, audit_logs, next_id, now, ui>>

\* step 3, saveDocumentMetadata: the INSERT of the row whose file_url is the
\* path just stored; the upload throws when it fails, and returns otherwise
\* (step 4, the signed URL, changes nothing)
uploadSaveMetadata(txn) ==
    /\ app.call.pc = "save"
    /\ TrackedMutation(app.call.session, "INSERT", "documents", NullRow,
                       [id |-> NewDocumentId, pilot_id |-> app.call.pilotId, title |-> "t1",
                        status |-> "pending", expiry_date |-> NULL, updated_at |-> NULL],
                       txn)
    /\ app' = IF last'.outcome = "committed"
              THEN [app EXCEPT !.file_url = [id \in DOMAIN @ \cup {NewDocumentId} |->
                                                IF id = NewDocumentId
                                                THEN NewFile(app.call.session) ELSE @[id]],
                               !.call = Ended(@, "returned")]
              ELSE [app EXCEPT !.call = Ended(@, "threw")]

\* deleteDocumentComplete(documentId, fileUrl) as the components call it,
\* with the row's id and file_url; step 1, deleteDocument: the object is
\* removed from storage when a policy lets the caller (no error otherwise);
\* the call throws when storage reports an error
deleteDocumentCompleteStart(s, d, storage) ==
    /\ app.call.pc \in {"idle", "done"}
    /\ d \in documents
    /\ LET fileUrl == app.file_url[d.id]
           removed == {file \in {fileUrl} \cap app.files : StoragePolicy(s, file)}
       IN  /\ app' = [app EXCEPT !.files = IF storage = "ok" THEN @ \ removed ELSE @,
                                 !.call = IF storage = "ok"
                                          THEN [pc |-> "delete", session |-> s,
                                                pilotId |-> NULL, documentId |-> d.id,
                                                result |-> "none"]
                                          ELSE [pc |-> "done", session |-> s,
                                                pilotId |-> NULL, documentId |-> d.id,
                                                result |-> "threw"]]
           /\ last' = Last("storage_remove", s, "storage.objects", d.id, <<fileUrl>>,
                           storage, IF storage = "ok" THEN "returned" ELSE "storage_error",
                           NullContext, NoVals, NULL)
    /\ UNCHANGED <<user_roles, pilots, documents, audit_logs, next_id, now, ui>>

\* step 2: DELETE FROM documents WHERE id = documentId; the call throws when
\* the statement fails, and returns otherwise, also when no row was deleted
deleteDocumentMetadata(txn) ==
    /\ app.call.pc = "delete"
    /\ \E old \in documents :
          /\ old.id = app.call.documentId
          /\ TrackedMutation(app.call.session, "DELETE", "documents", old, NullRow, txn)
    /\ app' = [app EXCEPT !.file_url = [id \in {d.id : d \in documents'} |-> @[id]],
                          !.call = Ended(@, IF last'.outcome \in {"committed", "norows"}
                                            THEN "returned" ELSE "threw")]

\* the file an earlier upload stored for the document with this id
FileOf(id) == [name |-> "f_" \o id, folder |-> "u1"]

\* one or two documents of pilot u1, each with its file in storage
FileInit ==
    /\ user_roles = {[id |-> "r1", user_id |-> "u1", role |-> "pilot"],
                     [id |-> "r2", user_id |-> "u2", role |-> "admin"]}
    /\ pilots = {[id |-> "p1", user_id |-> "u1", first_name |-> "Ann", last_name |-> "Lee"]}
    /\ \E ids \in {{"d1"}, {"d1", "d3"}} :
          /\ documents = {[id |-> id, pilot_id |-> "p1", title |-> "t1",
                           status |-> "pending", expiry_date |-> NULL,
                           updated_at |-> NULL] : id \in ids}
          /\ app = [files |-> {FileOf(id) : id \in ids},
                    file_url |-> [id \in ids |-> FileOf(id)],
                    call |-> NoCall]
    /\ audit_logs = <<>>
    /\ next_id = 1
    /\ now = 0
    /\ last = Last("init", NULL, NULL, NULL, <<>>, NULL, NULL, NullContext, NoVals, NULL)
    /\ ui = AuditLogMounted

FileNext ==
    \/ \E s \in Users : uploadDocumentCompleteStart(s)
    \/ \E txn \in TxnInputs : uploadCreatePilot(txn)
    \/ \E storage \in StorageInputs : uploadPilotDocument(storage)
    \/ \E txn \in TxnInputs : uploadSaveMetadata(txn)
    \/ \E s \in Users, d \in documents, storage \in StorageInputs :
          deleteDocumentCompleteStart(s, d, storage)
    \/ \E txn \in TxnInputs : deleteDocumentMetadata(txn)

FileSpec == FileInit /\ [][FileNext]_vars

-----------------------------------------------------------------------------
(* The page: session, role cache and sign-out *)

\* One browser tab of the identity AuthUser.  app.auth is what Supabase auth
\* holds ("in" with a session, "out" without), app.roleCache the entry of
\* localStorage (a set with at most one element, as app.user is), app.sessionCache the entry of sessionStorage, app.user the
\* state of the component, app.loads the calls of loadUserWithRole that wait
\* for a response, app.calls their calls of assignUserRole.
AuthUser == "u1"

NoLoad == [pc |-> "idle"]

\* getCachedUserRole(userId): the cached role, unless the entry has expired
\* or is another user's
getCachedUserRole(cache, userId, expired) ==
    IF cache = {} \/ expired THEN NULL
    ELSE LET entry == CHOOSE c \in cache : TRUE
         IN  IF entry.userId # userId THEN NULL ELSE entry.role

\* what getCachedUserRole leaves in localStorage: an expired entry is removed
ReadRoleCache(cache, expired) == IF expired THEN {} ELSE cache

\* setCachedUserRole(userId, role)
setCachedUserRole(userId, role) == {[userId |-> userId, role |-> role]}

\* getUserRole(userId): .maybeSingle(), null when the request has an error
getUserRole(userId) ==
    LET data == maybeSingle({ur \in user_roles : ur.user_id = userId})
    IN  IF data = {} THEN NULL ELSE (CHOOSE ur \in data : TRUE).role

\* loadUserWithRole(authUser) up to its first request: a cached role ends the
\* call at once with setUser, otherwise getUserRole is sent
loadUserWithRole(a, p, expired) ==
    LET role == getCachedUserRole(a.roleCache, AuthUser, expired)
    IN  IF role # NULL
        THEN [a EXCEPT !.user = {[id |-> AuthUser, role |-> role]}]
        ELSE [a EXCEPT !.roleCache = ReadRoleCache(a.roleCache, expired),
                       !.loads[p] = [pc |-> "getUserRole"]]

\* onAuthStateChange with a session (sign-in, token refresh): the session is
\* cached and loadUserWithRole called
AuthEventWithSession(p, expired) ==
    /\ app.loads[p].pc = "idle" /\ app.calls[p].pc = "idle"
    /\ app' = loadUserWithRole([app EXCEPT !.auth = "in", !.sessionCache = AuthUser],
                               p, expired)
    /\ last' = Last("auth_session", AuthUser, NULL, NULL, <<p>>, "ok", "returned",
                    NullContext, NoVals, NULL)
    /\ UNCHANGED <<user_roles, pilots, documents, audit_logs, next_id, now, ui>>

\* onAuthStateChange SIGNED_OUT: both caches are cleared and the user unset;
\* calls of loadUserWithRole that wait for a response go on waiting
AuthEventSignedOut ==
    /\ app.auth = "in"
    /\ app' = [app EXCEPT !.auth = "out", !.roleCache = {}, !.sessionCache = NULL,
                          !.user = {}]
    /\ last' = Last("auth_signed_out", AuthUser, NULL, NULL, <<>>, "ok", "returned",
                    NullContext, NoVals, NULL)
    /\ UNCHANGED <<user_roles, pilots, documents, audit_logs, next_id, now, ui>>

\* loadUserWithRole, the response of getUserRole: a role is cached and the
\* user set; without a role assignUserRole(id, 'pilot') is called
loadUserWithRoleGotRole(p) ==
    /\ app.loads[p].pc = "getUserRole"
    /\ LET role == getUserRole(AuthUser)
       IN  app' = IF role # NULL
                  THEN [app EXCEPT !.roleCache = setCachedUserRole(AuthUser, role),
                                   !.user = {[id |-> AuthUser, role |-> role]},
                                   !.loads[p] = NoLoad]
                  ELSE [app EXCEPT !.loads[p] = [pc |-> "assign"]]
    /\ last' = Last("load_role", AuthUser, "user_roles", NULL, <<p>>, "ok", "returned",
                    NullContext, NoVals, getUserRole(AuthUser))
    /\ UNCHANGED <<user_roles, pilots, documents, audit_logs, next_id, now, ui>>

\* loadUserWithRole calls assignUserRole(authUser.id, 'pilot')
loadUserWithRoleAssign(p) ==
    /\ app.loads[p].pc = "assign" /\ app.calls[p].pc = "idle"
    /\ assignUserRoleCheck(p, AuthUser, "pilot")

\* loadUserWithRole, assignUserRole has returned: the role is 'pilot' and is
\* cached when it returned true; the user is set, with or without a role
loadUserWithRoleAssigned(p) ==
    /\ app.loads[p].pc = "assign" /\ app.calls[p].pc = "done"
    /\ LET role == IF app.calls[p].result = "true" THEN "pilot" ELSE NULL
       IN  app' = [app EXCEPT !.roleCache = IF role # NULL
                                            THEN setCachedUserRole(AuthUser, role) ELSE @,
                              !.user = {[id |-> AuthUser, role |-> role]},
                              !.loads[p] = NoLoad,
                              !.calls[p] = Idle]
    /\ last' = Last("load_assigned", AuthUser, "user_roles", NULL, <<p>>, "ok", "returned",
                    NullContext, NoVals, NULL)
    /\ UNCHANGED <<user_roles, pilots, documents, audit_logs, next_id, now, ui>>

\* the page is loaded anew (its running calls are gone with the old page):
\* getSession takes user and role from the two caches when both are there,
\* and asks Supabase auth for the session otherwise
getSession(expired) ==
    LET fresh == [app EXCEPT !.user = {},
                             !.loads = [p \in Procs |-> NoLoad],
                             !.calls = [p \in Procs |-> Idle]]
        cachedRole == IF app.sessionCache = NULL THEN NULL
                      ELSE getCachedUserRole(app.roleCache, app.sessionCache, expired)
        read == IF app.sessionCache = NULL THEN fresh
                ELSE [fresh EXCEPT !.roleCache = ReadRoleCache(@, expired)]
    IN  /\ app' = IF cachedRole # NULL
                  THEN [read EXCEPT !.user = {[id |-> app.sessionCache, role |-> cachedRole]}]
                  ELSE IF app.auth = "in"
                       THEN loadUserWithRole([read EXCEPT !.sessionCache = AuthUser],
                                             "a", expired)
                       ELSE read
        /\ last' = Last("page_load", AuthUser, NULL, NULL, <<>>, "ok", "returned",
                        NullContext, NoVals, NULL)
        /\ UNCHANGED <<user_roles, pilots, documents, audit_logs, next_id, now, ui>>

\* the tab before anyone has signed in
AuthInit ==
    /\ \E first \in SUBSET {[id |-> "r1", user_id |-> "u1", role |-> "pilot"]} :
          user_roles = first \cup {[id |-> "r2", user_id |-> "u2", role |-> "admin"]}
    /\ pilots = {[id |-> "p1", user_id |-> "u1", first_name |-> "Ann", last_name |-> "Lee"]}
    /\ documents = {[id |-> "d1", pilot_id |-> "p1", title |-> "t1",
                     status |-> "pending", expiry_date |-> NULL,
                     updated_at |-> NULL]}
    /\ audit_logs = <<>>
    /\ next_id = 1
    /\ now = 0
    /\ last = Last("init", NULL, NULL, NULL, <<>>, NULL, NULL, NullContext, NoVals, NULL)
    /\ ui = AuditLogMounted
    /\ app = [auth |-> "out", roleCache |-> {}, sessionCache |-> NULL, user |-> {},
              loads |-> [p \in Procs |-> NoLoad], calls |-> [p \in Procs |-> Idle]]

AuthNext ==
    \/ \E p \in Procs, expired \in BOOLEAN : AuthEventWithSession(p, expired)
    \/ AuthEventSignedOut
    \/ \E p \in Procs : loadUserWithRoleGotRole(p)
    \/ \E p \in Procs : loadUserWithRoleAssign(p)
    \/ \E p \in Procs, txn \in TxnInputs : assignUserRoleInsert(p, txn)
    \/ \E p \in Procs : loadUserWithRoleAssigned(p)
    \/ \E expired \in BOOLEAN : getSession(expired)

AuthSpec == AuthInit /\ [][AuthNext]_vars

-----------------------------------------------------------------------------
(* The service worker of public/sw.js *)

\* app.static is the cache CACHE_NAME and app.api the cache API_CACHE_NAME,
\* each the set of URLs it holds a response for.
STATIC_ASSETS == {"/", "/offline"}

\* the URLs requested and, for each, request.url.includes('/api/') ||
\* request.url.includes('supabase.co')
Urls == {"/", "/logo.png", "/api/documents", "https://db.supabase.co/rest/v1/documents"}

IsApiUrl(url) == url \in {"/api/documents", "https://db.supabase.co/rest/v1/documents"}

Requests == [url : Urls, method : {"GET", "POST"}, mode : {"navigate", "cors"}]

\* fetch(request): a response with its status, or a rejection
NetworkInputs == {"200", "500", "failed"}

\* caches.match(request) over all caches; only a GET request finds an entry
cachesMatch(url, method) ==
    method = "GET" /\ url \in (app.static \cup app.api)

FromNetwork(network) == [from |-> "network", status |-> network]
FromCache == [from |-> "cache", status |-> "200"]
Unavailable == [from |-> "worker", status |-> "503"]
\* respondWith is given undefined or a rejection: the request fails
NoResponse == [from |-> "none", status |-> "failed"]

\* what the listener passes to event.respondWith
Respond(request, network) ==
    IF request.mode = "navigate"
    THEN IF "/" \in app.static THEN FromCache
         ELSE IF network # "failed" THEN FromNetwork(network)
         ELSE IF cachesMatch("/offline", "GET") THEN FromCache ELSE NoResponse
    ELSE IF IsApiUrl(request.url)
    THEN IF network # "failed" THEN FromNetwork(network)
         ELSE IF request.method = "GET"
              THEN IF cachesMatch(request.url, request.method) THEN FromCache ELSE NoResponse
              ELSE Unavailable
    ELSE IF cachesMatch(request.url, request.method) THEN FromCache
         ELSE IF network # "failed" THEN FromNetwork(network) ELSE NoResponse

\* as ApiCachePut, but storing the response of any method
ApiCachePut_AnyMethod(request, network) ==
    IF /\ request.mode # "navigate" /\ IsApiUrl(request.url)
       /\ network = "200"
    THEN app.api \cup {request.url} ELSE app.api

\* cache.put(request, responseClone) in API_CACHE_NAME
ApiCachePut(request, network) ==
    IF /\ request.mode # "navigate" /\ IsApiUrl(request.url)
       /\ network = "200" /\ request.method = "GET"
    THEN app.api \cup {request.url} ELSE app.api

\* cache.put(request, responseClone) in CACHE_NAME; put refuses a request
\* that is not a GET
StaticCachePut(request, network) ==
    IF /\ request.mode # "navigate" /\ ~IsApiUrl(request.url)
       /\ ~cachesMatch(request.url, request.method)
       /\ network = "200" /\ request.method = "GET"
    THEN app.static \cup {request.url} ELSE app.static

\* the fetch listener
fetchListener(request, network) ==
    /\ app' = [static |-> StaticCachePut(request, network),
               api |-> ApiCachePut(request, network)]
    /\ last' = Last("fetch", NULL, NULL, NULL, <<request, network>>, "ok", "returned",
                    NullContext, NoVals, Respond(request, network))
    /\ UNCHANGED <<user_roles, pilots, documents, audit_logs, next_id, now, ui>>

\* the worker after install and activate; the browser may have evicted the
\* caches since
WorkerInit ==
    /\ user_roles = {[id |-> "r1", user_id |-> "u1", role |-> "pilot"]}
    /\ pilots = {}
    /\ documents = {}
    /\ audit_logs = <<>>
    /\ next_id = 1
    /\ now = 0
    /\ last = Last("init", NULL, NULL, NULL, <<>>, NULL, NULL, NullContext, NoVals, NULL)
    /\ ui = AuditLogMounted
    /\ \E kept \in {STATIC_ASSETS, {}} : app = [static |-> kept, api |-> {}]

WorkerNext ==
    \E request \in Requests, network \in NetworkInputs : fetchListener(request, network)

WorkerSpec == WorkerInit /\ [][WorkerNext]_vars

-----------------------------------------------------------------------------
(* Properties *)

MutationOps == {"INSERT", "UPDATE", "DELETE"}

\* the rows of a table in given values of the three table variables
RowsIn(table, d, p, u) == CASE table = "documents" -> d
                            [] table = "pilots"    -> p
                            [] OTHER               -> u

\* action_type that describes a statement
ActionOf(op) == IF op = "INSERT" THEN "CREATE" ELSE op

\* snap is the full JSON image of row
IsImage(snap, row) ==
    /\ DOMAIN snap = DOMAIN row
    /\ \A k \in DOMAIN row : snap[k] = IF row[k] = NULL THEN JsonNull ELSE row[k]

\* C1: a mutation of a tracked table that commits has appended exactly one
\* entry naming its table, row and operation and has changed the table; a
\* mutation that storage rejects, that touches no row or whose transaction
\* rolls back (also when the audit write failed) leaves both the log and the
\* tables as they were.
C1_Atomicity ==
    [][last'.op \in MutationOps =>
        IF last'.outcome = "committed"
        THEN /\ Len(audit_logs') = Len(audit_logs) + 1
             /\ SubSeq(audit_logs', 1, Len(audit_logs)) = audit_logs
             /\ audit_logs'[Len(audit_logs')].table_name = last'.table
             /\ audit_logs'[Len(audit_logs')].record_id = last'.record_id
             /\ audit_logs'[Len(audit_logs')].action_type = ActionOf(last'.op)
             /\ RowsIn(last'.table, documents', pilots', user_roles') =
                   ApplyDml(last'.op, RowsIn(last'.table, documents, pilots, user_roles),
                            last'.args[1], last'.args[2])
        ELSE /\ audit_logs' = audit_logs
             /\ UNCHANGED <<documents, pilots, user_roles>>]_vars

C1_Witness ==
    /\ last.op = "UPDATE"
    /\ last.outcome = "committed"
    /\ audit_logs # <<>>
    /\ audit_logs[Len(audit_logs)].record_id = last.record_id

\* C2 (as claimed): an audit query by a caller whose role is pilot returns
\* only entries of that caller, whatever the filters; a query by an admin
\* without an actor filter returns the entries of all actors.
C2_AuthorizationBoundary ==
    last.op \in {"get_audit_logs", "get_audit_logs_with_details"} =>
        /\ HasRole(user_roles, last.session, "pilot") =>
              \A i \in DOMAIN last.result.data : last.result.data[i].user_id = last.session
        /\ (HasRole(user_roles, last.session, "admin") /\ last.args.userId = NULL) =>
              {last.result.data[i].id : i \in DOMAIN last.result.data} =
                 {al.id : al \in Range(audit_logs)}

\* C3: every entry of the log is still there, unchanged, after any step,
\* unless the step is a DELETE of that entry sent by a session whose role is
\* admin.
C3_AppendOnly ==
    [][\A i \in DOMAIN audit_logs :
          \/ audit_logs[i] \in Range(audit_logs')
          \/ /\ last'.op = "audit_delete"
             /\ last'.record_id = audit_logs[i].id
             /\ HasRole(user_roles, last'.session, "admin")]_vars

C3_Witness ==
    /\ last.op \in {"audit_delete", "audit_update"}
    /\ ~HasRole(user_roles, last.session, "admin")
    /\ \E al \in Range(audit_logs) : al.id = last.record_id

\* C4: the changed_fields a row trigger computes for an UPDATE are exactly the
\* columns whose value differs between the old and the new row, each once,
\* and a committed update stores them.
C4_DiffCorrectness ==
    [][(last'.op = "UPDATE" /\ last'.attempt # NoVals) =>
          /\ Range(last'.attempt.changed_fields) =
                {k \in DOMAIN last'.args[1] \cap DOMAIN last'.args[2] :
                    last'.args[1][k] # last'.args[2][k]}
          /\ Cardinality(Range(last'.attempt.changed_fields)) = Len(last'.attempt.changed_fields)
          /\ last'.outcome = "committed" =>
                audit_logs'[Len(audit_logs')].changed_fields = last'.attempt.changed_fields]_vars

C4_Witness ==
    /\ last.op = "UPDATE"
    /\ last.table = "documents"
    /\ last.outcome = "committed"
    /\ last.args[1].title = last.args[2].title
    /\ audit_logs[Len(audit_logs)].changed_fields = <<"status", "expiry_date">>

\* C5: every stored entry has an action_type of the enumeration, and a
\* capture whose action_type is outside it does not commit and leaves the
\* log unchanged.
C5_ClosedActionType ==
    [][/\ \A al \in Range(audit_logs') : al.action_type \in ActionTypes
       /\ (last'.attempt # NoVals /\ last'.attempt.action_type \notin ActionTypes) =>
             (audit_logs' = audit_logs /\ last'.outcome # "committed")]_vars

C5_Witness ==
    /\ last.op = "log"
    /\ last.args[3] = "PURGE"
    /\ last.outcome = "capture_error"
    /\ audit_logs # <<>>

\* C6 (as claimed): an insert, update or delete that storage accepts, in a
\* transaction that nothing else fails, commits with an entry whose
\* action_type is CREATE, UPDATE or DELETE respectively.
C6_CaptureCoversAllMutations ==
    (/\ last.op \in MutationOps
     /\ last.storage = "ok"
     /\ last.outcome \notin {"audit_write_failed", "rolled_back"}) =>
        /\ last.outcome = "committed"
        /\ audit_logs[Len(audit_logs)].action_type = ActionOf(last.op)

\* C7 (as claimed): a call of logAuditAction raises, or returns the id of an
\* entry that is in the log.
C7_LogSucceedsOrRaises ==
    last.op = "log" =>
        \/ last.result.how = "raised"
        \/ \E al \in Range(audit_logs) : al.id = last.result.value

\* C8: a log call that succeeds appends one entry with the table name, record
\* id, action type and metadata given and the actor of the session, without
\* snapshots or changed fields, returns its id, and changes neither another
\* entry nor a tracked row.
C8_ExplicitCaptureOneEntry ==
    [][(last'.op = "log" /\ last'.outcome = "committed") =>
          /\ Len(audit_logs') = Len(audit_logs) + 1
          /\ SubSeq(audit_logs', 1, Len(audit_logs)) = audit_logs
          /\ LET al == audit_logs'[Len(audit_logs')]
                 mine == {ur \in user_roles : ur.user_id = last'.session}
             IN  /\ al.table_name = last'.args[1]
                 /\ al.record_id = last'.args[2]
                 /\ al.action_type = last'.args[3]
                 /\ al.metadata = last'.args[4]
                 /\ al.id = last'.result.value
                 /\ IF mine = {}
                    THEN al.user_id = NULL /\ al.user_email = NULL /\ al.user_role = NULL
                    ELSE /\ al.user_id = last'.session
                         /\ al.user_email = auth_email(last'.session)
                         /\ \E ur \in mine : al.user_role = ur.role
                 /\ al.old_values = NullJsonb
                 /\ al.new_values = NullJsonb
                 /\ al.changed_fields \in {NullArray, <<>>}
          /\ UNCHANGED <<documents, pilots, user_roles>>]_vars

C8_Witness ==
    /\ last.op = "log"
    /\ last.outcome = "committed"
    /\ Len(audit_logs) = 2
    /\ audit_logs[2].id = last.result.value
    /\ audit_logs[2].metadata # EmptyObject

\* C9 (as claimed): a tracked mutation that storage accepts, or a log call
\* with a valid action type, made while the actor cannot be resolved (no
\* identity, or no row in user_roles when the capture runs) commits, absent
\* other failures, with one new entry whose actor columns are NULL.
C9_NullActorDegradation ==
    [][(/\ last'.op \in MutationOps \cup {"log"}
        /\ last'.storage = "ok"
        /\ last'.outcome \notin {"audit_write_failed", "rolled_back"}
        /\ last'.op = "log" => last'.args[3] \in ActionTypes
        /\ \A ur \in (IF last'.op \in MutationOps /\ last'.table = "user_roles"
                      THEN ApplyDml(last'.op, user_roles, last'.args[1], last'.args[2])
                      ELSE user_roles) : ur.user_id # last'.session) =>
          /\ last'.outcome = "committed"
          /\ Len(audit_logs') = Len(audit_logs) + 1
          /\ audit_logs'[Len(audit_logs')].user_id = NULL
          /\ audit_logs'[Len(audit_logs')].user_email = NULL
          /\ audit_logs'[Len(audit_logs')].user_role = NULL]_vars

\* C10: the snapshots a row trigger builds: for an INSERT no old_values and
\* the image of the new row, for a DELETE the image of the old row and no
\* new_values, for an UPDATE both images; changed_fields is empty for INSERT
\* and DELETE; a committed mutation stores exactly these.
C10_SnapshotShape ==
    [][(last'.op \in MutationOps /\ last'.attempt # NoVals) =>
          /\ last'.op = "INSERT" =>
                /\ last'.attempt.old_values = NullJsonb
                /\ IsImage(last'.attempt.new_values, last'.args[2])
                /\ last'.attempt.changed_fields = <<>>
          /\ last'.op = "DELETE" =>
                /\ IsImage(last'.attempt.old_values, last'.args[1])
                /\ last'.attempt.new_values = NullJsonb
                /\ last'.attempt.changed_fields = <<>>
          /\ last'.op = "UPDATE" =>
                /\ IsImage(last'.attempt.old_values, last'.args[1])
                /\ IsImage(last'.attempt.new_values, last'.args[2])
          /\ last'.outcome = "committed" =>
                /\ audit_logs'[Len(audit_logs')].old_values = last'.attempt.old_values
                /\ audit_logs'[Len(audit_logs')].new_values = last'.attempt.new_values
                /\ audit_logs'[Len(audit_logs')].changed_fields = last'.attempt.changed_fields]_vars

C10_Witness ==
    /\ last.op = "DELETE"
    /\ last.outcome = "committed"
    /\ audit_logs[Len(audit_logs)].new_values = NullJsonb
    /\ IsImage(audit_logs[Len(audit_logs)].old_values, last.args[1])

\* the entries about one document
EntriesOf(D) == {al \in Range(audit_logs) : al.table_name = "documents" /\ al.record_id = D}

\* a step the environment did not fail: storage accepted the statement and
\* neither the audit write nor the commit was made to fail
NotFailedByEnvironment ==
    last.storage = "ok" /\ last.outcome \notin {"audit_write_failed", "rolled_back"}

\* C11 (as claimed): when a pilot's upload of document D through
\* saveDocumentMetadata completes, D is stored and the entries about D are
\* exactly one UPLOAD entry by that pilot; when an admin then approves a
\* pending document through updateDocumentStatus, the entry about it that a
\* query returns first is an APPROVE entry by that admin whose changed fields
\* include "status", with status "pending" before and "approved" after.
C11_ApprovalFlow ==
    /\ (/\ last.op = "INSERT" /\ last.table = "documents"
        /\ HasRole(user_roles, last.session, "pilot")
        /\ NotFailedByEnvironment) =>
          /\ DocumentReturn(last.outcome) = "returned"
          /\ last.args[2] \in documents
          /\ \E al \in EntriesOf(last.record_id) :
                /\ EntriesOf(last.record_id) = {al}
                /\ al.action_type = "UPLOAD" /\ al.user_id = last.session
    /\ (/\ last.op = "UPDATE" /\ last.table = "documents"
        /\ HasRole(user_roles, last.session, "admin")
        /\ NotFailedByEnvironment
        /\ last.args[1].status = "pending" /\ last.args[2].status = "approved") =>
          /\ DocumentReturn(last.outcome) = "returned"
          /\ \A sq \in OrderByCreatedAtDesc(EntriesOf(last.record_id)) :
                /\ sq # <<>>
                /\ sq[1].action_type = "APPROVE" /\ sq[1].user_id = last.session
                /\ "status" \in Range(sq[1].changed_fields)
                /\ sq[1].old_values.status = "pending"
                /\ sq[1].new_values.status = "approved"

\* the ids of the rows of a result
Ids(data) == {data[i].id : i \in DOMAIN data}

\* what one supplied filter asks of an entry
Satisfies(al, f, k) ==
    CASE k = "tableName"  -> al.table_name = f.tableName
      [] k = "actionType" -> al.action_type = f.actionType
      [] k = "userId"     -> al.user_id = f.userId
      [] k = "startDate"  -> ~(al.created_at < f.startDate)
      [] k = "endDate"    -> ~(al.created_at > f.endDate)

\* the filters a caller supplied
Supplied(f) ==
    {k \in {"tableName", "actionType", "userId"} : f[k] # NULL}
       \cup {k \in {"startDate", "endDate"} : f[k] # NoDate}

\* the entries that satisfy every supplied filter
Matching(f) == {al.id : al \in {e \in Range(audit_logs) : \A k \in Supplied(f) : Satisfies(e, f, k)}}

\* C12: on every log and for every combination of the filters tableName,
\* actionType, userId, startDate and endDate, the entries getAuditLogs and
\* getAuditLogsWithDetails return (window wide enough to hold them all) are
\* exactly the entries that satisfy every supplied filter, date bounds
\* included; the query just made returned exactly those.
C12_ConjunctiveFilters ==
    /\ \A s \in QuerySessions, f \in QueryFilters :
          /\ \A data \in get_audit_logs(s, f) : Ids(data) = Matching(f)
          /\ \A data \in getAuditLogsWithDetails(s, f) : Ids(data) = Matching(f)
    /\ (/\ last.op \in {"get_audit_logs", "get_audit_logs_with_details"}
        /\ last.args \in QueryFilters) =>
          Ids(last.result.data) = Matching(last.args)

\* a query with three filters supplied has returned one entry and left out
\* another that satisfies only two of the three
C12_Witness ==
    /\ last.op = "get_audit_logs_with_details"
    /\ Supplied(last.args) = {"tableName", "actionType", "endDate"}
    /\ Len(last.result.data) = 1
    /\ \E al \in Range(audit_logs) :
          /\ al.table_name = last.args.tableName
          /\ al.action_type = last.args.actionType
          /\ al.created_at > last.args.endDate

QueryOps == {"get_audit_logs", "get_audit_logs_with_details"}

\* C13 (as claimed): the count a filtered retrieval returns is the number of
\* entries matching its filters, whatever its limit and offset.
C13_TotalCount ==
    last.op \in QueryOps => last.result.count = Cardinality(Matching(last.args))

\* the results the query just made may give when it is sent again with
\* filters g and nothing is written in between
Again(g) ==
    IF last.op = "get_audit_logs" THEN get_audit_logs(last.session, g)
    ELSE getAuditLogsWithDetails(last.session, g)

\* C14 (as claimed): with no write in between, the query just made for page 1
\* (limit PageSize, offset 0) returns the same rows when repeated, and page 1
\* followed by page 2 (offset PageSize) is the first 2 * PageSize rows of
\* the query without paging, no entry twice and none skipped, also when
\* entries share their createdAt.
C14_OrderingStability ==
    (last.op \in QueryOps /\ last.args.limit = PageSize /\ last.args.offset = 0) =>
        /\ \A data \in Again(last.args) : data = last.result.data
        /\ \A page2 \in Again([last.args EXCEPT !.offset = PageSize]),
              both \in Again([last.args EXCEPT !.limit = 2 * PageSize]) :
              /\ last.result.data \o page2 = both
              /\ Ids(last.result.data) \cap Ids(page2) = {}

\* no two entries of a log carry the same createdAt
NoTies(lg) == \A i, j \in DOMAIN lg : i # j => lg[i].created_at # lg[j].created_at

\* C15 (as claimed): when the component moves on to the next page, entries
\* having been inserted since the page before it was read, no entry of that
\* page is returned again on the new page.  (Logs without equal createdAt:
\* the order of the rows is then fixed.)
C15_PaginationUnderInserts ==
    [][(last'.op = "next_page" /\ NoTies(audit_logs'))
          => Ids(ui.logs) \cap Ids(ui'.logs) = {}]_vars

\* the sum of the counts of a grouping
RECURSIVE SumOver(_, _)
SumOver(counts, keys) ==
    IF keys = {} THEN 0
    ELSE LET k == CHOOSE x \in keys : TRUE IN counts[k] + SumOver(counts, keys \ {k})
SumOf(counts) == SumOver(counts, DOMAIN counts)

\* the entries whose createdAt lies in a range
InRange(startDate, endDate) ==
    {al \in Range(audit_logs) : ~(al.created_at < startDate) /\ ~(al.created_at > endDate)}

\* C16 (as claimed): a statistics query for a date range returns a result in
\* which totalActions is the number of entries of the range and the counts
\* by action type and the counts by table each add up to totalActions.
C16_AggregationConsistency ==
    (last.op = "get_audit_statistics" /\ last.args[1] # NoDate /\ last.args[2] # NoDate) =>
        /\ last.result.error = NULL
        /\ last.result.data.totalActions = Cardinality(InRange(last.args[1], last.args[2]))
        /\ SumOf(last.result.data.actionsByType) = last.result.data.totalActions
        /\ SumOf(last.result.data.actionsByTable) = last.result.data.totalActions

\* the trailing 30 days, in the unit the timestamps of the model are in: no
\* entry of the model is older
ThirtyDays == 30

\* C17 (as claimed): a statistics query without dates returns a result
\* computed over the trailing 30 days up to now: totalActions counts every
\* entry created in them.
C17_StatisticsDefaultRange ==
    (last.op = "get_audit_statistics" /\ last.args = <<NoDate, NoDate>>) =>
        /\ last.result.error = NULL
        /\ last.result.data.totalActions = Cardinality(InRange(now - ThirtyDays, now))

QuotesBefore(txt, i) == Cardinality({j \in 1 .. (i - 1) : txt[j] = DQ})

\* the positions lo .. hi of a text where the character c stands outside
\* quotes (every quote opens or closes a quoted stretch, the first of two
\* quotes closing it and the second opening it again)
Separators(txt, lo, hi, c) ==
    {i \in lo .. hi : txt[i] = c /\ QuotesBefore(txt, i) % 2 = 0}

\* the stretches <<first, last>> into which the positions cuts divide lo .. hi
Pieces(lo, hi, cuts) ==
    LET kth(k) == CHOOSE p \in cuts : Cardinality({q \in cuts : q <= p}) = k
        n      == Cardinality(cuts)
    IN  [k \in 1 .. (n + 1) |->
            <<IF k = 1 THEN lo ELSE kth(k - 1) + 1,
              IF k = n + 1 THEN hi ELSE kth(k) - 1>>]

\* the content of a quoted field: two quotes stand for one, and a quote
\* alone closes or opens a quoted stretch and stands for nothing
RECURSIVE Unquote(_)
Unquote(field) ==
    IF field = <<>> THEN <<>>
    ELSE IF field[1] # DQ THEN <<field[1]>> \o Unquote(Tail(field))
    ELSE IF Len(field) >= 2 /\ field[2] = DQ
         THEN <<DQ>> \o Unquote(SubSeq(field, 3, Len(field)))
         ELSE Unquote(Tail(field))

\* the field at the positions lo .. hi of a text
ParseField(txt, lo, hi) ==
    IF lo <= hi /\ txt[lo] = DQ
    THEN Unquote(SubSeq(txt, lo + 1, IF txt[hi] = DQ THEN hi - 1 ELSE hi))
    ELSE SubSeq(txt, lo, hi)

\* the record at the positions lo .. hi of a text
ParseRecord(txt, lo, hi) ==
    LET fields == Pieces(lo, hi, Separators(txt, lo, hi, Comma))
    IN  [k \in DOMAIN fields |-> ParseField(txt, fields[k][1], fields[k][2])]

ParseCsv(txt) ==
    LET records == Pieces(1, Len(txt), Separators(txt, 1, Len(txt), NewLine))
    IN  [k \in DOMAIN records |-> ParseRecord(txt, records[k][1], records[k][2])]

ExportOps == {"export_csv", "export_json"}

\* the entries an export document holds
Exported ==
    IF last.op = "export_json" THEN Len(last.result.value.json)
    ELSE Len(ParseCsv(last.result.value)) - 1

\* C19 (as claimed): an export whose filters match more entries than the
\* export row cap fails; an export that returns holds every matching entry.
C19_ExportNeverTruncates ==
    last.op \in ExportOps =>
        /\ Cardinality(Matching(last.args)) > ExportCap => last.result.how = "threw"
        /\ last.result.how = "returned" => Exported = Cardinality(Matching(last.args))

\* the text of a value of an entry, nothing for a value that is absent
TextOf(value) == IF value = NULL THEN <<>> ELSE Chars(value)

\* the values of an entry in the order of the columns: timestamp, table,
\* record id, action, actor email, actor role, actor name, description,
\* changed fields, IP address, user agent
SourceFields(r) ==
    <<Chars(toISOString(r.created_at)), TextOf(r.table_name), TextOf(r.record_id),
      TextOf(r.action_type), TextOf(r.user_email), TextOf(r.user_role),
      IF r.first_name = NULL \/ r.last_name = NULL THEN <<>>
      ELSE TextOf(r.first_name) \o <<" ">> \o TextOf(r.last_name),
      TextOf(r.record_description),
      IF r.changed_fields = NullArray THEN <<>>
      ELSE join([i \in DOMAIN r.changed_fields |-> TextOf(r.changed_fields[i])],
                <<Comma, " ">>),
      TextOf(r.ip_address), TextOf(r.user_agent)>>

WellFormed(f) ==
    /\ f.actionType \in ActionTypes \cup {NULL}
    /\ f.startDate = NoDate \/ f.endDate = NoDate \/ f.startDate <= f.endDate

\* C21 (as claimed): a retrieval whose actionType is outside the closed set
\* or whose date range is malformed returns an error, never a result set.
C21_FilterValidation ==
    (last.op \in {"get_audit_logs", "get_audit_logs_with_details"} /\ ~WellFormed(last.args))
        => last.result.error # NULL

\* the roles user_roles holds for the identity of a session
RolesOf(roles, s) == {ur.role : ur \in {r \in roles : r.user_id = auth_uid(s)}}

\* the actor columns of an entry
ActorOf(al) == <<al.user_id, al.user_email, al.user_role>>

\* C22 (as claimed): the entry a mutation of a tracked table appends carries
\* the identity of the session that sent the statement and a role that
\* identity had when it sent it; and no step changes the actor columns of an
\* entry that is already in the log.
C22_DenormalizedActorFrozen ==
    [][ /\ (last'.op \in MutationOps /\ last'.outcome = "committed"
               /\ RolesOf(user_roles, last'.session) # {}) =>
             LET al == audit_logs'[Len(audit_logs')]
             IN  /\ al.user_id = auth_uid(last'.session)
                 /\ al.user_email = auth_email(last'.session)
                 /\ al.user_role \in RolesOf(user_roles, last'.session)
        /\ Len(audit_logs') >= Len(audit_logs) =>
             \A i \in DOMAIN audit_logs : ActorOf(audit_logs'[i]) = ActorOf(audit_logs[i])
      ]_vars

\* the second half of C22 alone: the log only grows at its end or loses
\* entries, and the actor columns of the entries that stay are never touched
ActorColumnsStay ==
    [][Len(audit_logs') >= Len(audit_logs) =>
            \A i \in DOMAIN audit_logs : ActorOf(audit_logs'[i]) = ActorOf(audit_logs[i])
      ]_vars

\* what the claim derives the description of an entry from: the record its
\* record_id names (where that record still exists)
DescribedBy(r) ==
    CASE r.table_name = "documents" ->
            \A d \in documents : d.id = r.record_id => r.record_description = d.title
      [] r.table_name = "pilots" ->
            \A p \in pilots : p.id = r.record_id =>
                r.record_description = FullName(p.first_name, p.last_name)
      [] OTHER -> r.record_description = r.table_name

\* C23 (as claimed): every entry the detailed query returns is described by
\* the title of the document its record_id names (table documents), by the
\* full name of the pilot record its record_id names (table pilots), and by
\* its table name otherwise.
C23_RecordDescription ==
    last.op = "get_audit_logs_with_details" =>
        \A i \in DOMAIN last.result.data : DescribedBy(last.result.data[i])

\* C23 without the entries about pilots
DocumentsDescribed ==
    last.op = "get_audit_logs_with_details" =>
        \A i \in DOMAIN last.result.data :
            last.result.data[i].table_name # "pilots" => DescribedBy(last.result.data[i])

C25_RoleChangesAdminOnly ==
    [][(\/ HasRole(user_roles, auth_uid(last'.session), "pilot")
        \/ HasRole(user_roles, auth_uid(last'.session), "inspector")) =>
          \A ur \in user_roles : \A changed \in user_roles' :
              changed.id = ur.id => changed.role = ur.role]_vars

\* C26 (as claimed): the status of a document changes only in a step sent
\* by a session whose role is admin or inspector, and never in a step sent
\* by a session whose role is pilot, whoever the document belongs to.
C26_ReviewReservedToReviewers ==
    [][\A d \in documents : \A changed \in documents' :
          (changed.id = d.id /\ changed.status # d.status) =>
              /\ \/ HasRole(user_roles, auth_uid(last'.session), "admin")
                 \/ HasRole(user_roles, auth_uid(last'.session), "inspector")
              /\ ~HasRole(user_roles, auth_uid(last'.session), "pilot")]_vars

\* C27 (as claimed): once the calls of getOrCreatePilotRecord for a user
\* have all ended, pilots holds exactly one row for that user and every call
\* has returned the id of that row.
C27_OnePilotRecord ==
    (\A p \in PilotProcs : app.calls[p].pc = "done") =>
        \A p \in PilotProcs :
            /\ Cardinality({row \in pilots : row.user_id = app.calls[p].userId}) = 1
            /\ \E row \in pilots : /\ row.user_id = app.calls[p].userId
                                   /\ app.calls[p].result = row.id

\* C28 (as claimed): whenever no upload or delete is in progress, every row
\* of documents has its file in storage and every file in storage has a row
\* of documents whose file_url names it.
C28_FileMetadataConsistency ==
    app.call.pc \in {"idle", "done"} =>
        /\ \A d \in documents : app.file_url[d.id] \in app.files
        /\ \A file \in app.files : \E d \in documents : app.file_url[d.id] = file

\* the half of C28 about uploads: no file without a row
NoOrphanFile ==
    app.call.pc \in {"idle", "done"} =>
        \A file \in app.files : \E d \in documents : app.file_url[d.id] = file

\* the half of C28 about deletes: no row without its file
NoDanglingRow ==
    app.call.pc \in {"idle", "done"} =>
        \A d \in documents : app.file_url[d.id] \in app.files

\* C29 (as claimed): while the tab is signed out, the user-role cache and
\* the session cache are empty, and a page load leaves no user set.
C29_SignOutClearsCaches ==
    app.auth = "out" =>
        /\ app.roleCache = {}
        /\ app.sessionCache = NULL
        /\ last.op = "page_load" => app.user = {}

\* the last sentence of C29 alone: a page load of a signed-out tab restores
\* no user
NoUserRestored ==
    (app.auth = "out" /\ last.op = "page_load") => app.user = {}

\* the clauses of C30 for one handled request
NetworkFirst(request, network, response, stored, cached) ==
    /\ network # "failed" => response = FromNetwork(network)
    /\ stored => (request.method = "GET" /\ network = "200")
    /\ (network = "failed" /\ request.method = "GET") =>
           response = IF cached THEN FromCache ELSE NoResponse
    /\ (network = "failed" /\ request.method # "GET") => response = Unavailable
    /\ request.method # "GET" => (~stored /\ response.from # "cache")

\* C30 (as claimed, navigations included): every request whose URL contains /api/ or supabase.co
\* is answered with the network response when the fetch succeeds and stored
\* in the API cache only if it is a GET with status 200; when the fetch
\* fails a GET is answered from the cache and any other method with the 503
\* response; a request that is not a GET is never stored and never answered
\* from the cache.
C30_NetworkFirstApi ==
    [][(last'.op = "fetch" /\ IsApiUrl(last'.args[1].url)) =>
          NetworkFirst(last'.args[1], last'.args[2], last'.result,
                       app'.api # app.api \/ app'.static # app.static,
                       last'.args[1].url \in (app.static \cup app.api))]_vars

\* C30 (amended): the same for the requests that are not navigations, which
\* the listener handles before it looks at the URL: every such request whose
\* URL contains /api/ or supabase.co is answered network-first as C30 says.
C30_NetworkFirstApiCalls ==
    [][(/\ last'.op = "fetch" /\ IsApiUrl(last'.args[1].url)
        /\ last'.args[1].mode # "navigate") =>
          NetworkFirst(last'.args[1], last'.args[2], last'.result,
                       app'.api # app.api \/ app'.static # app.static,
                       last'.args[1].url \in (app.static \cup app.api))]_vars

\* a GET of the API that is not a navigation, stored earlier, is answered from
\* the cache when the network fails
C30_Witness ==
    /\ last.op = "fetch"
    /\ IsApiUrl(last.args[1].url)
    /\ last.args[1].mode = "cors" /\ last.args[1].method = "GET"
    /\ last.args[2] = "failed"
    /\ last.result = FromCache
    /\ last.args[1].url \in app.api

====
